---- MODULE Spec2Model ----
(***************************************************************************)
(* The game engine of words-rain (web/app.js, here src/unnamed/part_004):  *)
(* the session state object, the frame loop, the key handlers, the solve   *)
(* sequence and the start / go-back transitions.                           *)
(*                                                                         *)
(* Conventions of the model                                                *)
(*  - A word text is a sequence of one-character strings, so that          *)
(*    startsWith, slice and toLowerCase are computed, not assumed.         *)
(*  - Time is counted in quanta of dt.  A frame advances the world by 0    *)
(*    quanta (the first frame after a reset, lastFrameTime = 0) or by 1.   *)
(*    The spawn period (1 s in the code) is SpawnInterval quanta and       *)
(*    a word falls one pixel unit per quantum (speed * dt = dt), so that   *)
(*    the fall from topY to groundY takes FallDist quanta.                 *)
(*  - x, width, effects, speedLevel and accent are drawing / audio data    *)
(*    that no handler reads back; they are left out of the state record.   *)
(*  - null is modelled by 0 (word ids and list positions start at 1).      *)
(***************************************************************************)
EXTENDS Integers, Sequences, FiniteSets, Bags, TLC

VARIABLES
    state,      \* the `state` object of app.js
    panel,      \* which panel is shown: "setup" or "game"
    fetches,    \* startGame calls suspended at `await fetchWordbookWords`
    inflight,   \* solve sequences suspended at `await Promise.all([...])`
    event,      \* history: the operation that produced this state
    session,    \* history: number of words the current session started with
    solveLog,   \* history: the combo value recorded at each solve of the session
    started,    \* history: the bag of texts the current session started with
    solved,     \* history: the bag of texts solved in the current session
    spoiled,    \* history: the misses and chain breaks of the current session:
                \* "none", "free" (all with combo 0) or "costly" (one with combo > 0)
    config,     \* main.go: what loadConfigOptional reads from the config file
    handlers,   \* main.go: settings PUT handlers between loadConfigOptional and writeConfig
    lastSaved,  \* history: the accent echoed by the last successful PUT settings/accent
    entries     \* main.go: the names of the files in the wordbooks directory

vars == <<state, panel, fetches, inflight, event, session, solveLog,
          started, solved, spoiled, config, handlers, lastSaved, entries>>

\* the variables of the page, and those of the server's settings store
gameVars == <<state, panel, fetches, inflight, session, solveLog,
              started, solved, spoiled>>
serverVars == <<config, handlers, lastSaved, entries>>

\* the history of the words of a session
wordVars == <<started, solved, spoiled>>

----------------------------------------------------------------------------
(* Bounds of the model *)

\* groundY - topY in pixel units of one quantum of fall
FallDist == 3
\* the spawn period in quanta of dt
SpawnInterval == 2
\* ticks that would hand out an id above MaxWordId are not explored
MaxWordId == 3
\* solve sequences in flight at once
MaxInFlight == 1
\* startGame calls suspended at their fetch at once
MaxFetches == 1

(* Program constants *)

null == 0
topY == 26
groundY == topY + FallDist
maxActiveWords == 8

----------------------------------------------------------------------------
(* Texts *)

wGo   == <<"g", "o">>
wGoat == <<"g", "o", "a", "t">>
wCat  == <<"c", "a", "t">>
wCar  == <<"c", "a", "r">>
wA    == <<"a">>

\* U+FEFF alone: what a file saved with a byte-order mark begins with
wBom  == <<"U+FEFF">>

\* the wordbook files of the model, as their lines
WordbookFiles == { <<wGo, wGoat>>, <<wCat, wCar>>, <<wA, wGo>>, <<wBom>> }

\* strings.TrimSpace: U+FEFF is no White_Space character and is kept
RECURSIVE TrimSpace(_)
TrimSpace(line) ==
    IF Len(line) > 0 /\ line[1] = " " THEN TrimSpace(Tail(line))
    ELSE IF Len(line) > 0 /\ line[Len(line)] = " "
    THEN TrimSpace(SubSeq(line, 1, Len(line) - 1))
    ELSE line

\* readWordbook: the trimmed, non-empty lines in file order (the texts of the
\* model are in lower case already)
RECURSIVE readWordbook(_)
readWordbook(lines) ==
    IF lines = <<>> THEN <<>>
    ELSE IF TrimSpace(Head(lines)) = <<>> THEN readWordbook(Tail(lines))
    ELSE <<TrimSpace(Head(lines))>> \o readWordbook(Tail(lines))

\* What GET /api/wordbooks/<name> can answer
WordbookResponses == { readWordbook(lines) : lines \in WordbookFiles }

\* event.key values the keydown listener is given
LetterKeys == {"a", "c", "g", "o", "r", "t", "G"}
ControlKeys == {"Backspace", "Escape"}
Keys == LetterKeys \cup ControlKeys

\* /^[a-zA-Z]$/ on the keys of the model
IsLetterKey(key) == key \in LetterKeys

\* String.prototype.toLowerCase on one character
toLowerChar(ch) ==
    CASE ch = "G" -> "g"
      [] ch = "C" -> "c"
      [] ch = "A" -> "a"
      [] OTHER -> ch

toLowerCase(text) == [i \in 1..Len(text) |-> toLowerChar(text[i])]

\* the WhiteSpace of ECMAScript among the characters of the model: U+FEFF is one
WhiteSpace == { " ", "U+FEFF" }

\* String.prototype.trim: drop leading and trailing white space
RECURSIVE trimLeft(_)
trimLeft(text) ==
    IF Len(text) > 0 /\ text[1] \in WhiteSpace THEN trimLeft(Tail(text)) ELSE text

RECURSIVE trimRight(_)
trimRight(text) ==
    IF Len(text) > 0 /\ text[Len(text)] \in WhiteSpace
    THEN trimRight(SubSeq(text, 1, Len(text) - 1))
    ELSE text

trim(text) == trimRight(trimLeft(text))

\* String.prototype.startsWith
startsWith(text, prefix) ==
    /\ Len(prefix) <= Len(text)
    /\ SubSeq(text, 1, Len(prefix)) = prefix

\* Array.prototype.filter(Boolean) on texts: the empty string is falsy
RECURSIVE filterNonEmpty(_)
filterNonEmpty(list) ==
    IF list = <<>> THEN <<>>
    ELSE IF Len(Head(list)) = 0 THEN filterNonEmpty(Tail(list))
    ELSE <<Head(list)>> \o filterNonEmpty(Tail(list))

\* shuffle(list): Fisher-Yates with Math.random can return any permutation
shuffle(list) ==
    { [i \in 1..Len(list) |-> list[p[i]]] : p \in Permutations(1..Len(list)) }

----------------------------------------------------------------------------
(* The state object *)

InitialState ==
    [ running |-> FALSE, frozen |-> FALSE, gameOver |-> FALSE,
      score |-> 0, combo |-> 0,
      inputBuffer |-> <<>>, targetWordId |-> null,
      pendingWords |-> <<>>, activeWords |-> <<>>, missedWords |-> <<>>,
      spawnTimer |-> 0, nextWordId |-> 1, lastFrameTime |-> 0 ]

resetRuntimeState(s) ==
    [s EXCEPT !.running = TRUE, !.frozen = FALSE, !.gameOver = FALSE,
              !.score = 0, !.combo = 0,
              !.inputBuffer = <<>>, !.targetWordId = null,
              !.spawnTimer = 0, !.activeWords = <<>>, !.missedWords = <<>>,
              !.nextWordId = 1, !.lastFrameTime = 0]

\* a mutation of spawnWord: the missed pool is emptied but not requeued
spawnWord_LosesMissed(s) ==
    IF Len(s.activeWords) >= maxActiveWords
    THEN { [st |-> s, ret |-> FALSE] }
    ELSE IF Len(s.pendingWords) = 0
    THEN { [st |-> [s EXCEPT !.missedWords = <<>>], ret |-> FALSE] }
    ELSE { [st |-> [s EXCEPT
                      !.pendingWords = Tail(s.pendingWords),
                      !.activeWords = Append(s.activeWords,
                          [id |-> s.nextWordId,
                           text |-> Head(s.pendingWords),
                           y |-> topY]),
                      !.nextWordId = s.nextWordId + 1],
             ret |-> TRUE] }

\* the successful end of spawnWord: the first pending text becomes a word
spawnFirstPending(r) ==
    [st |-> [r EXCEPT
               !.pendingWords = Tail(r.pendingWords),
               !.activeWords = Append(r.activeWords,
                   [id |-> r.nextWordId,
                    text |-> Head(r.pendingWords),
                    y |-> topY]),
               !.nextWordId = r.nextWordId + 1],
     ret |-> TRUE]

\* a mutation of spawnWord: the id counter is not advanced
spawnWord_ReusesId(s) ==
    IF Len(s.activeWords) >= maxActiveWords
    THEN { [st |-> s, ret |-> FALSE] }
    ELSE IF Len(s.pendingWords) = 0 /\ Len(s.missedWords) = 0
    THEN { [st |-> s, ret |-> FALSE] }
    ELSE { [r EXCEPT !.st.nextWordId = s.nextWordId]
           : r \in IF Len(s.pendingWords) = 0
                   THEN { spawnFirstPending([s EXCEPT !.pendingWords = p,
                                                      !.missedWords = <<>>])
                          : p \in shuffle(s.missedWords) }
                   ELSE { spawnFirstPending(s) } }

\* a mutation of spawnWord: the cap is tested with > instead of >=
spawnWord_OverCap(s) ==
    IF Len(s.activeWords) > maxActiveWords
    THEN { [st |-> s, ret |-> FALSE] }
    ELSE IF Len(s.pendingWords) = 0 /\ Len(s.missedWords) = 0
    THEN { [st |-> s, ret |-> FALSE] }
    ELSE IF Len(s.pendingWords) = 0
    THEN { spawnFirstPending([s EXCEPT !.pendingWords = p, !.missedWords = <<>>])
           : p \in shuffle(s.missedWords) }
    ELSE { spawnFirstPending(s) }

\* a mutation of spawnWord: the refill leaves the missed pool as it was
spawnWord_KeepsMissed(s) ==
    IF Len(s.activeWords) >= maxActiveWords
    THEN { [st |-> s, ret |-> FALSE] }
    ELSE IF Len(s.pendingWords) = 0 /\ Len(s.missedWords) = 0
    THEN { [st |-> s, ret |-> FALSE] }
    ELSE IF Len(s.pendingWords) = 0
    THEN { spawnFirstPending([s EXCEPT !.pendingWords = p])
           : p \in shuffle(s.missedWords) }
    ELSE { spawnFirstPending(s) }

\* spawnWord: the set of possible outcomes [st, ret]; the choice is shuffle's
spawnWord(s) ==
    IF Len(s.activeWords) >= maxActiveWords
    THEN { [st |-> s, ret |-> FALSE] }
    ELSE IF Len(s.pendingWords) = 0 /\ Len(s.missedWords) = 0
    THEN { [st |-> s, ret |-> FALSE] }
    ELSE
      LET refills == IF Len(s.pendingWords) = 0
                     THEN { [s EXCEPT !.pendingWords = p, !.missedWords = <<>>]
                            : p \in shuffle(s.missedWords) }
                     ELSE { s }
      IN { IF Len(r.pendingWords) = 0
           THEN [st |-> r, ret |-> FALSE]
           ELSE [st |-> [r EXCEPT
                           !.pendingWords = Tail(r.pendingWords),
                           !.activeWords = Append(r.activeWords,
                               [id |-> r.nextWordId,
                                text |-> Head(r.pendingWords),
                                y |-> topY]),
                           !.nextWordId = r.nextWordId + 1],
                 ret |-> TRUE]
           : r \in refills }

\* a mutation of chooseFrom: a later word of equal y replaces the best
RECURSIVE chooseFrom_LastOfEqual(_, _, _, _)
chooseFrom_LastOfEqual(ws, prefix, i, best) ==
    IF i > Len(ws) THEN best
    ELSE IF ~startsWith(ws[i].text, prefix)
    THEN chooseFrom_LastOfEqual(ws, prefix, i + 1, best)
    ELSE IF best = null \/ ws[i].y >= ws[best].y
    THEN chooseFrom_LastOfEqual(ws, prefix, i + 1, i)
    ELSE chooseFrom_LastOfEqual(ws, prefix, i + 1, best)

\* a mutation of chooseFrom: the comparison is turned, the highest word wins
RECURSIVE chooseFrom_Farthest(_, _, _, _)
chooseFrom_Farthest(ws, prefix, i, best) ==
    IF i > Len(ws) THEN best
    ELSE IF ~startsWith(ws[i].text, prefix)
    THEN chooseFrom_Farthest(ws, prefix, i + 1, best)
    ELSE IF best = null \/ ws[i].y < ws[best].y
    THEN chooseFrom_Farthest(ws, prefix, i + 1, i)
    ELSE chooseFrom_Farthest(ws, prefix, i + 1, best)

\* the loop of chooseTarget from position i on, best being the position kept
RECURSIVE chooseFrom(_, _, _, _)
chooseFrom(ws, prefix, i, best) ==
    IF i > Len(ws) THEN best
    ELSE IF ~startsWith(ws[i].text, prefix) THEN chooseFrom(ws, prefix, i + 1, best)
    ELSE IF best = null \/ ws[i].y > ws[best].y THEN chooseFrom(ws, prefix, i + 1, i)
    ELSE chooseFrom(ws, prefix, i + 1, best)

\* chooseTarget: the position in activeWords of the word returned, null for none
\* a mutation of chooseTarget: a word once targeted stays the only candidate
chooseTarget_LockedTarget(s, prefix) ==
    LET held == { i \in 1..Len(s.activeWords) :
                     s.activeWords[i].id = s.targetWordId }
        current == IF held = {} THEN 0 ELSE CHOOSE i \in held : TRUE
    IN IF s.targetWordId # null /\ current # 0
       THEN IF startsWith(s.activeWords[current].text, prefix) THEN current ELSE null
       ELSE chooseFrom(s.activeWords, prefix, 1, null)

chooseTarget(s, prefix) == chooseFrom(s.activeWords, prefix, 1, null)

\* a mutation of clearInputTracking: the target is left as it was
clearInputTracking_KeepsTarget(s) == [s EXCEPT !.inputBuffer = <<>>]

clearInputTracking(s) == [s EXCEPT !.inputBuffer = <<>>, !.targetWordId = null]

\* a mutation of onWordMissed: a missed target stays the target
onWordMissed_KeepsTarget(s, word) ==
    [s EXCEPT !.missedWords = Append(s.missedWords, word.text), !.combo = 0]

\* a mutation of onWordMissed: the combo survives a miss
onWordMissed_KeepsCombo(s, word) ==
    LET s1 == [s EXCEPT !.missedWords = Append(s.missedWords, word.text)]
    IN IF s1.targetWordId = word.id THEN clearInputTracking(s1) ELSE s1

\* a mutation of onWordMissed: the text of the missed word is not kept
onWordMissed_DropsWord(s, word) ==
    LET s1 == [s EXCEPT !.combo = 0]
    IN IF s1.targetWordId = word.id THEN clearInputTracking(s1) ELSE s1

\* a mutation of onWordMissed: a miss costs a point
onWordMissed_CostsPoint(s, word) ==
    LET s1 == [s EXCEPT !.missedWords = Append(s.missedWords, word.text),
                        !.combo = 0, !.score = s.score - 1]
    IN IF s1.targetWordId = word.id THEN clearInputTracking(s1) ELSE s1

onWordMissed(s, word) ==
    LET s1 == [s EXCEPT !.missedWords = Append(s.missedWords, word.text),
                        !.combo = 0]
    IN IF s1.targetWordId = word.id THEN clearInputTracking(s1) ELSE s1

\* Array.prototype.findIndex((w) => w.id === id): a position, or 0 for -1
RECURSIVE findIndexFrom(_, _, _)
findIndexFrom(ws, id, i) ==
    IF i > Len(ws) THEN 0
    ELSE IF ws[i].id = id THEN i
    ELSE findIndexFrom(ws, id, i + 1)

findIndexById(ws, id) == findIndexFrom(ws, id, 1)

\* Array.prototype.splice(index, 1)
spliceOne(ws, index) ==
    SubSeq(ws, 1, index - 1) \o SubSeq(ws, index + 1, Len(ws))

\* removeActiveWordById: [st, removed], removed being FALSE for the null return
removeActiveWordById(s, id) ==
    LET index == findIndexById(s.activeWords, id)
    IN IF index = 0
       THEN [st |-> s, removed |-> FALSE]
       ELSE [st |-> [s EXCEPT !.activeWords = spliceOne(s.activeWords, index)],
             removed |-> TRUE]

\* a mutation of maybeFinishGame: the missed pool is not looked at
maybeFinishGame_IgnoresMissed(s) ==
    IF Len(s.pendingWords) = 0 /\ Len(s.activeWords) = 0
    THEN [s EXCEPT !.running = FALSE, !.gameOver = TRUE]
    ELSE s

\* a mutation of maybeFinishGame: the game is declared over and left running
maybeFinishGame_KeepsRunning(s) ==
    IF /\ Len(s.pendingWords) = 0
       /\ Len(s.activeWords) = 0
       /\ Len(s.missedWords) = 0
    THEN [s EXCEPT !.gameOver = TRUE]
    ELSE s

\* a mutation of maybeFinishGame: every call at the end adds the combo to the
\* final score
maybeFinishGame_AddsBonus(s) ==
    IF /\ Len(s.pendingWords) = 0
       /\ Len(s.activeWords) = 0
       /\ Len(s.missedWords) = 0
    THEN [s EXCEPT !.running = FALSE, !.gameOver = TRUE,
                   !.score = s.score + s.combo]
    ELSE s

maybeFinishGame(s) ==
    IF /\ Len(s.pendingWords) = 0
       /\ Len(s.activeWords) = 0
       /\ Len(s.missedWords) = 0
    THEN [s EXCEPT !.running = FALSE, !.gameOver = TRUE]
    ELSE s

\* a mutation of onWordSolved: every solve is worth twice the combo
onWordSolved_DoublePoints(s) ==
    LET combo1 == s.combo + 1
        points == 2 * combo1
    IN [s EXCEPT !.combo = combo1, !.score = s.score + points, !.frozen = TRUE]

\* a mutation of onWordSolved: every solve is worth one point
onWordSolved_FlatPoints(s) ==
    [s EXCEPT !.combo = s.combo + 1, !.score = s.score + 1, !.frozen = TRUE]

\* onWordSolved up to its await: the score, then the freeze
onWordSolved(s) ==
    LET combo1 == s.combo + 1
        points == combo1
    IN [s EXCEPT !.combo = combo1, !.score = s.score + points, !.frozen = TRUE]

\* a mutation of onWordSolvedResume: the end of the session is not checked
onWordSolvedResume_NoFinish(s) == [s EXCEPT !.frozen = FALSE]

\* onWordSolved after its await (both promises resolved)
onWordSolvedResume(s) == maybeFinishGame([s EXCEPT !.frozen = FALSE])

\* a mutation of inputAccepted: the freeze is not tested
inputAccepted_IgnoresFrozen(s) == s.running /\ ~s.gameOver

\* the guard of handleTypedCharacter, negated: the input is processed
inputAccepted(s) == s.running /\ ~s.frozen /\ ~s.gameOver

\* a mutation of chainBroken: a failed extension never counts as a break
chainBroken_Never(s, target0) == FALSE

\* a mutation of chainBroken: a failed extension of an empty buffer counts too
chainBroken_AlsoEmpty(s, target0) == target0 = null

\* the value of brokenChain: the extension matched nothing and there was input
chainBroken(s, target0) == target0 = null /\ Len(s.inputBuffer) > 0

\* a mutation of solveTarget: the buffer and the target are not cleared
solveTarget_KeepsInput(s2, word) ==
    LET rm == removeActiveWordById(s2, word.id)
    IN IF rm.removed
       THEN [solved |-> TRUE, steps |-> <<s2, rm.st, rm.st, onWordSolved(rm.st)>>]
       ELSE [solved |-> FALSE, steps |-> <<s2, rm.st, rm.st>>]

\* a mutation of solveTarget: onWordSolved is called with the word still
\* active and tracked, and the clean-up follows
solveTarget_FreezesFirst(s2, word) ==
    LET s3 == onWordSolved(s2)
        rm == removeActiveWordById(s3, word.id)
    IN [solved |-> rm.removed,
        steps |-> <<s2, s3, rm.st, clearInputTracking(rm.st)>>]

\* the end of handleTypedCharacter once the buffer equals the target's text:
\* the states passed through, in order, and whether onWordSolved was called
solveTarget(s2, word) ==
    LET rm == removeActiveWordById(s2, word.id)
        s3 == clearInputTracking(rm.st)
    IN IF rm.removed
       THEN [solved |-> TRUE, steps |-> <<s2, rm.st, s3, onWordSolved(s3)>>]
       ELSE [solved |-> FALSE, steps |-> <<s2, rm.st, s3>>]

\* handleTypedCharacter: [st, solved, brokenChain, steps]; solved says that
\* onWordSolved was called, which leaves one more solve sequence in flight;
\* steps are the states passed through, st being the last
handleTypedCharacter(s, ch) ==
    IF ~inputAccepted(s)
    THEN [st |-> s, solved |-> FALSE, brokenChain |-> FALSE, steps |-> <<s>>]
    ELSE
      LET lower == toLowerChar(ch)
          extended == Append(s.inputBuffer, lower)
          target0 == chooseTarget(s, extended)
          brokenChain == chainBroken(s, target0)
          nextBuffer == IF target0 = null THEN <<lower>> ELSE extended
          target == IF target0 = null THEN chooseTarget(s, <<lower>>) ELSE target0
          s1 == IF brokenChain THEN [s EXCEPT !.combo = 0] ELSE s
      IN IF target = null
         THEN [st |-> clearInputTracking(s1), solved |-> FALSE,
               brokenChain |-> brokenChain,
               steps |-> <<s1, clearInputTracking(s1)>>]
         ELSE
           LET word == s1.activeWords[target]
               s2 == [s1 EXCEPT !.inputBuffer = nextBuffer,
                                !.targetWordId = word.id]
           IN IF s2.inputBuffer = word.text
              THEN LET r == solveTarget(s2, word)
                   IN [st |-> r.steps[Len(r.steps)], solved |-> r.solved,
                       brokenChain |-> brokenChain, steps |-> r.steps]
              ELSE [st |-> s2, solved |-> FALSE, brokenChain |-> brokenChain,
                    steps |-> <<s1, s2>>]

\* String.prototype.slice(0, -1)
dropLast(text) == SubSeq(text, 1, Len(text) - 1)

\* a mutation of handleControlKey: Backspace shortens the buffer and leaves the
\* target as it was
handleControlKey_KeepsTarget(s, key) ==
    IF key = "Backspace"
    THEN IF Len(s.inputBuffer) = 0 THEN s
         ELSE [s EXCEPT !.inputBuffer = dropLast(s.inputBuffer)]
    ELSE IF key = "Escape" THEN clearInputTracking(s)
    ELSE s

\* a mutation of handleControlKey: Escape gives up the combo as well
handleControlKey_EscapeDropsCombo(s, key) ==
    IF key = "Backspace"
    THEN IF Len(s.inputBuffer) = 0 THEN s
         ELSE LET s1 == [s EXCEPT !.inputBuffer = dropLast(s.inputBuffer)]
              IN IF Len(s1.inputBuffer) = 0
                 THEN [s1 EXCEPT !.targetWordId = null]
                 ELSE LET target == chooseTarget(s1, s1.inputBuffer)
                      IN [s1 EXCEPT !.targetWordId =
                            IF target # null THEN s1.activeWords[target].id ELSE null]
    ELSE IF key = "Escape" THEN [clearInputTracking(s) EXCEPT !.combo = 0]
    ELSE s

handleControlKey(s, key) ==
    IF key = "Backspace"
    THEN IF Len(s.inputBuffer) = 0 THEN s
         ELSE LET s1 == [s EXCEPT !.inputBuffer = dropLast(s.inputBuffer)]
              IN IF Len(s1.inputBuffer) = 0
                 THEN [s1 EXCEPT !.targetWordId = null]
                 ELSE LET target == chooseTarget(s1, s1.inputBuffer)
                      IN [s1 EXCEPT !.targetWordId =
                            IF target # null THEN s1.activeWords[target].id ELSE null]
    ELSE IF key = "Escape" THEN clearInputTracking(s)
    ELSE s

\* the keydown listener registered by init
onKeyDown(s, key) ==
    LET ignored == [st |-> s, solved |-> FALSE, brokenChain |-> FALSE]
    IN IF ~s.running THEN ignored
       ELSE IF IsLetterKey(key) THEN handleTypedCharacter(s, key)
       ELSE IF key = "Backspace" \/ key = "Escape"
       THEN [ignored EXCEPT !.st = handleControlKey(s, key)]
       ELSE ignored

\* a mutation of spawnLoop: `if` for `while`, at most one spawn in a call
spawnLoop_Once(s) ==
    IF s.spawnTimer >= SpawnInterval
    THEN { r.st : r \in spawnWord([s EXCEPT !.spawnTimer = s.spawnTimer - SpawnInterval]) }
    ELSE { s }

\* the `while (state.spawnTimer >= 1)` loop of updateWorld
RECURSIVE spawnLoop(_)
spawnLoop(s) ==
    IF s.spawnTimer >= SpawnInterval
    THEN UNION { spawnLoop(r.st) :
                 r \in spawnWord([s EXCEPT !.spawnTimer = s.spawnTimer - SpawnInterval]) }
    ELSE { s }

\* a mutation of fallLoop: the oldest of several words does not fall
RECURSIVE fallLoop_OldestStalls(_, _, _, _, _)
fallLoop_OldestStalls(s, ws, i, survivors, dt) ==
    IF i > Len(ws) THEN [st |-> s, survivors |-> survivors]
    ELSE LET word == [ws[i] EXCEPT !.y = IF i = 1 /\ Len(ws) > 1 THEN @ ELSE @ + dt]
         IN IF word.y >= groundY
            THEN fallLoop_OldestStalls(onWordMissed(s, word), ws, i + 1, survivors, dt)
            ELSE fallLoop_OldestStalls(s, ws, i + 1, Append(survivors, word), dt)

\* a mutation of fallLoop: a word that is exactly on the ground line survives
RECURSIVE fallLoop_KeepsLanded(_, _, _, _, _)
fallLoop_KeepsLanded(s, ws, i, survivors, dt) ==
    IF i > Len(ws) THEN [st |-> s, survivors |-> survivors]
    ELSE LET word == [ws[i] EXCEPT !.y = ws[i].y + dt]
         IN IF word.y > groundY
            THEN fallLoop_KeepsLanded(onWordMissed(s, word), ws, i + 1, survivors, dt)
            ELSE fallLoop_KeepsLanded(s, ws, i + 1, Append(survivors, word), dt)

\* the `for (const word of state.activeWords)` loop of updateWorld over the
\* list ws from position i on: [st, survivors]
RECURSIVE fallLoop(_, _, _, _, _)
fallLoop(s, ws, i, survivors, dt) ==
    IF i > Len(ws) THEN [st |-> s, survivors |-> survivors]
    ELSE LET word == [ws[i] EXCEPT !.y = ws[i].y + dt]
         IN IF word.y >= groundY
            THEN fallLoop(onWordMissed(s, word), ws, i + 1, survivors, dt)
            ELSE fallLoop(s, ws, i + 1, Append(survivors, word), dt)

\* updateWorld(dt): the set of possible next states
updateWorld(s, dt) ==
    { LET r == fallLoop(s1, s1.activeWords, 1, <<>>, dt)
      IN maybeFinishGame([r.st EXCEPT !.activeWords = r.survivors])
      : s1 \in spawnLoop([s EXCEPT !.spawnTimer = s.spawnTimer + dt]) }

\* the quanta a frame can advance the world by: `now - lastFrameTime` is 0 on
\* the first frame after a reset and positive (at most the clamp) afterwards
frameDts(s) == IF s.lastFrameTime = 0 THEN {0} ELSE {1}

\* a mutation of simulationRuns: the freeze is not tested
simulationRuns_IgnoresFrozen(s) == s.running /\ ~s.gameOver

\* the guard of updateWorld in loop
simulationRuns(s) == s.running /\ ~s.frozen /\ ~s.gameOver

\* loop(now): the set of possible next states for a frame advancing by dt
loop(s, dt) ==
    LET s1 == [s EXCEPT !.lastFrameTime = 1]
    IN IF simulationRuns(s1)
       THEN updateWorld(s1, dt)
       ELSE { s1 }

\* parseMaxWordsLimit on a non-negative integer input value
parseMaxWordsLimit(n) == IF n > 0 THEN n ELSE 0

Min(a, b) == IF a < b THEN a ELSE b

\* startGame after `await fetchWordbookWords` answered words: the set of
\* possible next states; a rejected start leaves the state as it is
startGame(s, words, maxWordsInput) ==
    IF Len(words) = 0 THEN { s }
    ELSE
      LET s1 == resetRuntimeState(s)
          normalizedWords ==
              filterNonEmpty([i \in 1..Len(words) |-> trim(toLowerCase(words[i]))])
          maxWords == parseMaxWordsLimit(maxWordsInput)
          selections ==
              IF maxWords > 0
              THEN { SubSeq(p, 1, Min(maxWords, Len(normalizedWords)))
                     : p \in shuffle(normalizedWords) }
              ELSE { normalizedWords }
      IN UNION { UNION { { r.st : r \in spawnWord([s1 EXCEPT !.pendingWords = p]) }
                         : p \in shuffle(selectedWords) }
                 : selectedWords \in selections }

\* the selectedWords of a started session: the texts in its pools
startedWith(s) == Len(s.pendingWords) + Len(s.activeWords)

goToSetup(s) ==
    clearInputTracking([s EXCEPT !.running = FALSE, !.frozen = FALSE,
                                 !.gameOver = FALSE])

----------------------------------------------------------------------------
(* The state machine *)

\* the history record of an operation: what ran, and what it did
Event(op) == [op |-> op, solved |-> FALSE, brokenChain |-> FALSE, missed |-> FALSE]

ActiveIds(s) == { s.activeWords[i].id : i \in 1..Len(s.activeWords) }

\* the bag of the elements of a list
RECURSIVE BagOf(_)
BagOf(q) == IF q = <<>> THEN EmptyBag ELSE SetToBag({Head(q)}) (+) BagOf(Tail(q))

\* the bag of texts in the three pools of a state
WordsOf(s) ==
    BagOf(s.pendingWords) (+) BagOf(s.missedWords)
        (+) BagOf([i \in 1..Len(s.activeWords) |-> s.activeWords[i].text])

\* ---- the settings store of the server (main.go) ----
\* A string of main.go is a sequence of tokens: " " is a space, "/" a slash,
\* any other token a run of other characters.  appConfig keeps only the
\* fields a settings response shows (Accent, Wordbook); Host, Port,
\* OpenBrowser and WordbooksDir are written back as they were read.
enUS == <<"en-US">>
enGB == <<"en-GB">>

\* appConfig{}: what loadConfigOptional returns when the file does not exist
emptyConfig == [Accent |-> <<>>, Wordbook |-> <<>>, err |-> FALSE]

\* a config file parseEnvConfig fails on (loadConfigOptional returns the error)
unreadable == [Accent |-> <<>>, Wordbook |-> <<>>, err |-> TRUE]

\* the server has no request in progress and no config file
ServerIdle ==
    /\ config = emptyConfig
    /\ handlers = {}
    /\ lastSaved = <<>>
    /\ entries = {}

\* no session has started: no words, none solved, nothing spoiled
NoSession ==
    /\ started = EmptyBag
    /\ solved = EmptyBag
    /\ spoiled = "none"

\* the history of misses and chain breaks after a step that reset the combo
\* (reset) or did not
Spoil(reset) ==
    IF ~reset THEN spoiled
    ELSE IF state.combo > 0 \/ spoiled = "costly" THEN "costly"
    ELSE "free"

Init ==
    /\ state = InitialState
    /\ panel = "setup"
    /\ fetches = 0
    /\ inflight = <<>>
    /\ event = Event("init")
    /\ session = 0
    /\ solveLog = <<>>
    /\ NoSession
    /\ ServerIdle

\* a click on the start button (visible on the setup panel): startGame runs
\* up to its await
ClickStart ==
    /\ panel = "setup"
    /\ fetches < MaxFetches
    /\ fetches' = fetches + 1
    /\ event' = Event("click")
    /\ UNCHANGED <<state, panel, inflight, session, solveLog>>
    /\ UNCHANGED serverVars
    /\ UNCHANGED wordVars

\* the fetch fails or answers an empty list: startGame returns
StartRejected ==
    /\ fetches > 0
    /\ fetches' = fetches - 1
    /\ \E words \in {<<>>} :
         /\ state' \in startGame(state, words, 0)
    /\ event' = Event("rejected")
    /\ UNCHANGED <<panel, inflight, session, solveLog>>
    /\ UNCHANGED serverVars
    /\ UNCHANGED wordVars

\* the fetch answers a word list, one of responses: startGame runs to its end
StartGameWith(responses) ==
    /\ fetches > 0
    /\ fetches' = fetches - 1
    /\ \E words \in responses, maxWordsInput \in 0..1 :
         /\ state' \in startGame(state, words, maxWordsInput)
    /\ panel' = "game"
    /\ session' = startedWith(state')
    /\ solveLog' = <<>>
    /\ event' = Event("start")
    /\ UNCHANGED inflight
    /\ UNCHANGED serverVars

StartGameStep == StartGameWith(WordbookResponses)

StartGame == StartGameStep /\ UNCHANGED wordVars

\* the same, with the history of the session's words opened
StartGameTracked ==
    /\ StartGameStep
    /\ started' = WordsOf(state')
    /\ solved' = EmptyBag
    /\ spoiled' = "none"

\* a click on the back or the restart button (both on the game panel)
GoToSetup ==
    /\ panel = "game"
    /\ state' = goToSetup(state)
    /\ panel' = "setup"
    /\ event' = Event("back")
    /\ UNCHANGED <<fetches, inflight, session, solveLog>>
    /\ UNCHANGED serverVars
    /\ UNCHANGED wordVars

\* one animation frame
FrameStep ==
    /\ \E dt \in frameDts(state) :
         /\ state' \in loop(state, dt)
         /\ event' = [Event("frame") EXCEPT
                         !.missed = ~(ActiveIds(state) \subseteq ActiveIds(state'))]
    /\ state'.nextWordId <= MaxWordId + 1
    /\ UNCHANGED <<panel, fetches, inflight, session, solveLog>>
    /\ UNCHANGED serverVars

Frame == FrameStep /\ UNCHANGED wordVars

\* the same, with a miss recorded in the history
FrameTracked ==
    /\ FrameStep
    /\ spoiled' = Spoil(event'.missed)
    /\ UNCHANGED <<started, solved>>

\* one keydown event, with at most n solve sequences in flight after it
KeyDownStep(key, n) ==
    LET r == onKeyDown(state, key)
    IN /\ r.solved => Len(inflight) < n
       /\ state' = r.st
       /\ inflight' = IF r.solved
                      THEN Append(inflight, [dissolve |-> FALSE, speech |-> FALSE])
                      ELSE inflight
       /\ solveLog' = IF r.solved THEN Append(solveLog, r.st.combo) ELSE solveLog
       /\ event' = [Event("key") EXCEPT !.solved = r.solved,
                                        !.brokenChain = r.brokenChain]
       /\ UNCHANGED <<panel, fetches, session>>
       /\ UNCHANGED serverVars

KeyDownWithin(key, n) == KeyDownStep(key, n) /\ UNCHANGED wordVars

\* the same, with a solved text and a chain break recorded in the history;
\* the buffer equals the text of the word when solveTarget is called
KeyDownTracked(key) ==
    LET r == onKeyDown(state, key)
    IN /\ KeyDownStep(key, MaxInFlight)
       /\ solved' = IF r.solved THEN solved (+) BagOf(<<r.steps[1].inputBuffer>>)
                    ELSE solved
       /\ spoiled' = Spoil(r.brokenChain)
       /\ UNCHANGED started

KeyDown(key) == KeyDownWithin(key, MaxInFlight)

\* one of the two promises of solve sequence i resolves; when it is the second,
\* Promise.all resolves and onWordSolved resumes
settle(i, part) ==
    LET done == [inflight[i] EXCEPT ![part] = TRUE]
    IN /\ ~inflight[i][part]
       /\ IF done.dissolve /\ done.speech
          THEN /\ inflight' = spliceOne(inflight, i)
               /\ state' = onWordSolvedResume(state)
          ELSE /\ inflight' = [inflight EXCEPT ![i] = done]
               /\ state' = state
       /\ event' = Event(part)
       /\ UNCHANGED <<panel, fetches, session, solveLog>>
       /\ UNCHANGED serverVars
       /\ UNCHANGED wordVars

\* the 600 ms timer of animateDissolve fires
DissolveDone == \E i \in 1..Len(inflight) : settle(i, "dissolve")

\* speakWord resolves through the utterance's end or error event
SpeechEnded == \E i \in 1..Len(inflight) : settle(i, "speech")

\* speakWord without its timers: only the utterance's events resolve it
SpeechTimer_NoTimer == \E i \in {} : settle(i, "speech")

\* speakWord resolves through a timer: the 500 ms one without speech
\* synthesis, else the 2500 ms fallback
SpeechTimer == \E i \in 1..Len(inflight) : settle(i, "speech")

\* speakWord resolves, by whichever comes first
SpeechDone == SpeechEnded \/ SpeechTimer

Next ==
    \/ ClickStart
    \/ StartRejected
    \/ StartGame
    \/ GoToSetup
    \/ Frame
    \/ \E key \in Keys : KeyDown(key)
    \/ DissolveDone
    \/ SpeechDone

Spec == Init /\ [][Next]_vars

\* The same program with one more solve sequence in flight, so that a sequence
\* left behind by goToSetup is still pending during the next session's solve.
KeyDownStale(key) == KeyDownWithin(key, MaxInFlight + 1)

NextStale ==
    \/ ClickStart
    \/ StartRejected
    \/ StartGame
    \/ GoToSetup
    \/ Frame
    \/ \E key \in Keys : KeyDownStale(key)
    \/ DissolveDone
    \/ SpeechDone

SpecStale == Init /\ [][NextStale]_vars

\* The same program as Spec, with the history of the session's words kept:
\* what it started with, what was solved, whether a miss or a chain break
\* happened.
NextLedger ==
    \/ ClickStart
    \/ StartRejected
    \/ StartGameTracked
    \/ GoToSetup
    \/ FrameTracked
    \/ \E key \in Keys : KeyDownTracked(key)
    \/ DissolveDone
    \/ SpeechDone

SpecLedger == Init /\ [][NextLedger]_vars

\* The same program as Spec on a wordbook with a line that is not all letters,
\* and a keyboard with the key for it.
wGoTo == <<"g", "o", "-", "t", "o">>

PunctFiles == { <<wGo, wGoTo>> }

PunctResponses == { readWordbook(lines) : lines \in PunctFiles }

PunctKeys == Keys \cup {"-"}

StartGamePunct == StartGameWith(PunctResponses) /\ UNCHANGED wordVars

NextPunct ==
    \/ ClickStart
    \/ StartRejected
    \/ StartGamePunct
    \/ GoToSetup
    \/ Frame
    \/ \E key \in PunctKeys : KeyDown(key)
    \/ DissolveDone
    \/ SpeechDone

SpecPunct == Init /\ [][NextPunct]_vars

\* Timers fire: a pending setTimeout callback runs after its delay.  Nothing is
\* assumed of the speech engine's events, of the user or of the frame loop.
TimersFire == WF_vars(DissolveDone) /\ WF_vars(SpeechTimer)

SpecTimers == Spec /\ TimersFire

\* Frames run as well: loop re-arms requestAnimationFrame at the end of every
\* call, so a frame that can run does run.  Nothing is assumed of the user.
FramesRun == WF_vars(Frame)

SpecFrames == SpecTimers /\ FramesRun

----------------------------------------------------------------------------
(* chooseTarget as a function of the active list: it is applied to every    *)
(* list of at most MaxChooseWords words, equal y included.                  *)

MaxChooseWords == 2

ChooseTexts == { wGo, wGoat, wCat, wCar, wA }
ChoosePrefixes ==
    UNION { { SubSeq(w, 1, n) : n \in 1..Len(w) } : w \in ChooseTexts } \cup { <<"t">> }

ChooseLists ==
    UNION { { [i \in 1..n |-> [id |-> i, text |-> f[i][1], y |-> topY + f[i][2]]]
              : f \in [1..n -> ChooseTexts \X (0..1)] }
            : n \in 0..MaxChooseWords }

InitChoose ==
    /\ state \in { [InitialState EXCEPT !.activeWords = ws, !.running = TRUE,
                                        !.nextWordId = Len(ws) + 1]
                   : ws \in ChooseLists }
    /\ panel = "game"
    /\ fetches = 0
    /\ inflight = <<>>
    /\ event = Event("init")
    /\ session = Len(state.activeWords)
    /\ solveLog = <<>>
    /\ NoSession
    /\ ServerIdle

ChooseTargetCall ==
    /\ \E prefix \in ChoosePrefixes :
         event' = [op |-> "chooseTarget", prefix |-> prefix,
                   ret |-> chooseTarget(state, prefix)]
    /\ UNCHANGED <<state, panel, fetches, inflight, session, solveLog>>
    /\ UNCHANGED serverVars
    /\ UNCHANGED wordVars

NextChoose == ChooseTargetCall

SpecChoose == InitChoose /\ [][NextChoose]_vars

----------------------------------------------------------------------------
(* spawnWord and maybeFinishGame as functions of the three pools: they are  *)
(* applied, again and again, to every state with up to maxActiveWords       *)
(* active words and up to MaxPool pending and missed texts;                 *)
(* removeActiveWordById makes room.                                         *)

MaxPool == 2

PoolTexts == { wGo, wCat }

PoolLists == UNION { [1..n -> PoolTexts] : n \in 0..MaxPool }

\* n active words in spawn order, the oldest lowest
ActiveList(n) == [i \in 1..n |-> [id |-> i, text |-> wA, y |-> topY + (n - i)]]

InitSpawn ==
    /\ state \in { [InitialState EXCEPT !.running = TRUE,
                                        !.activeWords = ActiveList(n),
                                        !.nextWordId = n + 1,
                                        !.combo = 2, !.score = 3,
                                        !.pendingWords = pending,
                                        !.missedWords = missed]
                   : n \in 0..maxActiveWords,
                     pending \in PoolLists, missed \in PoolLists }
    /\ panel = "game"
    /\ fetches = 0
    /\ inflight = <<>>
    /\ event = [op |-> "init", ret |-> FALSE]
    /\ session = 0
    /\ solveLog = <<>>
    /\ NoSession
    /\ ServerIdle

SpawnWordCall ==
    /\ \E r \in spawnWord(state) :
         /\ state' = r.st
         /\ event' = [op |-> "spawnWord", ret |-> r.ret]
    /\ UNCHANGED <<panel, fetches, inflight, session, solveLog>>
    /\ UNCHANGED serverVars
    /\ UNCHANGED wordVars

RemoveActiveWordCall ==
    /\ state.activeWords # <<>>
    /\ state' = removeActiveWordById(state, state.activeWords[1].id).st
    /\ event' = [op |-> "removeActiveWordById", ret |-> TRUE]
    /\ UNCHANGED <<panel, fetches, inflight, session, solveLog>>
    /\ UNCHANGED serverVars
    /\ UNCHANGED wordVars

\* one call of maybeFinishGame; again says that the game was over already
MaybeFinishGameCall ==
    /\ state' = maybeFinishGame(state)
    /\ event' = [op |-> "maybeFinishGame", ret |-> FALSE, again |-> state.gameOver]
    /\ UNCHANGED <<panel, fetches, inflight, session, solveLog>>
    /\ UNCHANGED serverVars
    /\ UNCHANGED wordVars

NextSpawn == SpawnWordCall \/ RemoveActiveWordCall \/ MaybeFinishGameCall

SpecSpawn == InitSpawn /\ [][NextSpawn]_vars

----------------------------------------------------------------------------
(* handleControlKey as a function of the state: it is applied, again and    *)
(* again, to every active list of at most MaxChooseWords words, every       *)
(* buffer, every target and every phase, with scores and pools that are not *)
(* empty.                                                                   *)

ControlBuffers == ChoosePrefixes \cup { <<>> }

\* the phase flags: setup, running, frozen, complete
ControlPhases ==
    { [running |-> FALSE, frozen |-> FALSE, gameOver |-> FALSE],
      [running |-> TRUE,  frozen |-> FALSE, gameOver |-> FALSE],
      [running |-> TRUE,  frozen |-> TRUE,  gameOver |-> FALSE],
      [running |-> FALSE, frozen |-> FALSE, gameOver |-> TRUE] }

InitControl ==
    /\ state \in { [InitialState EXCEPT !.activeWords = ws,
                                        !.nextWordId = Len(ws) + 1,
                                        !.inputBuffer = buffer,
                                        !.targetWordId = target,
                                        !.running = phase.running,
                                        !.frozen = phase.frozen,
                                        !.gameOver = phase.gameOver,
                                        !.combo = 2, !.score = 3,
                                        !.pendingWords = <<wCar>>,
                                        !.missedWords = <<wA>>]
                   : ws \in ChooseLists, buffer \in ControlBuffers,
                     target \in 0..MaxChooseWords, phase \in ControlPhases }
    /\ panel = "game"
    /\ fetches = 0
    /\ inflight = <<>>
    /\ event = [op |-> "init", had |-> <<>>]
    /\ session = 0
    /\ solveLog = <<>>
    /\ NoSession
    /\ ServerIdle

\* one call of handleControlKey; had is the buffer it found
ControlKeyCall ==
    /\ \E key \in ControlKeys :
         /\ state' = handleControlKey(state, key)
         /\ event' = [op |-> key, had |-> state.inputBuffer]
    /\ UNCHANGED <<panel, fetches, inflight, session, solveLog>>
    /\ UNCHANGED serverVars
    /\ UNCHANGED wordVars

NextControl == ControlKeyCall

SpecControl == InitControl /\ [][NextControl]_vars

----------------------------------------------------------------------------
(* Vocabulary of the properties *)

Active(s) == { s.activeWords[i] : i \in 1..Len(s.activeWords) }

\* the words that leave the active list in this step
Gone == { w \in Active(state) : w.id \notin ActiveIds(state') }

\* positions of the active words whose text starts with prefix
Matching(s, prefix) ==
    { i \in 1..Len(s.activeWords) : startsWith(s.activeWords[i].text, prefix) }

\* the matching word nearest to the ground, the first in list order among equals
Nearest(s, prefix) ==
    s.activeWords[CHOOSE i \in Matching(s, prefix) :
                    \A j \in Matching(s, prefix) :
                       \/ s.activeWords[i].y > s.activeWords[j].y
                       \/ s.activeWords[i].y = s.activeWords[j].y /\ i <= j]

RECURSIVE SumSeq(_)
SumSeq(q) == IF q = <<>> THEN 0 ELSE Head(q) + SumSeq(Tail(q))

PoolsEmpty(s) ==
    s.pendingWords = <<>> /\ s.activeWords = <<>> /\ s.missedWords = <<>>

\* the quanta the world advanced by in a frame step that ran updateWorld
StepDt ==
    CHOOSE d \in 0..1 : (state'.spawnTimer - state.spawnTimer - d) % SpawnInterval = 0

----------------------------------------------------------------------------
(* C1: every solve raises combo by exactly 1 (from 0 when the same keystroke *)
(* broke the chain) and adds the new combo to score; score is the sum of the *)
(* combo values recorded at the solves of the session, which read 1, 2, ...  *)
(* k over solves with no miss and no chain break in between.                 *)

C1_ScoreIsSumOfCombos ==
    /\ state.score = SumSeq(solveLog)
    /\ \A i \in 1..Len(solveLog) :
         solveLog[i] = 1 \/ (i > 1 /\ solveLog[i] = solveLog[i - 1] + 1)

C1_SolveStep ==
    (event'.op = "key" /\ Gone # {}) =>
        \A w \in Gone :
          /\ state'.combo =
               IF w.text = Append(state.inputBuffer, w.text[Len(w.text)])
               THEN state.combo + 1 ELSE 1
          /\ state'.score = state.score + state'.combo
          /\ solveLog' = Append(solveLog, state'.combo)

C1_ComboKept ==
    state'.combo # state.combo =>
        \/ event'.op = "key" /\ Gone # {}
        \/ event'.op = "key" /\ state.inputBuffer # <<>> /\ state'.combo = 0
        \/ event'.op = "frame" /\ Gone # {} /\ state'.combo = 0
        \/ event'.op = "start" /\ state'.combo = 0

\* C1: score is the sum of the combo values of the solves, each solve adding
\* exactly 1 to combo and the new combo to score.
C1_ComboScoring ==
    /\ []C1_ScoreIsSumOfCombos
    /\ [][C1_SolveStep /\ C1_ComboKept]_vars

C1_Witness == event.solved /\ solveLog = <<1, 2>> /\ state.score = 3

----------------------------------------------------------------------------
(* C2: in a frame that runs updateWorld, every active word whose y reaches   *)
(* the ground line leaves activeWords, its text is appended to missedWords   *)
(* and combo is 0 afterwards; inputBuffer and targetWordId are cleared when  *)
(* a missed word was the target and unchanged when none was.                 *)

C2_MissStep ==
    (event'.op = "frame" /\ simulationRuns(state)) =>
        LET Reached(w) == w.y + StepDt >= groundY
            reached == SelectSeq(state.activeWords, Reached)
            texts == [i \in 1..Len(reached) |-> reached[i].text]
            n == Len(state'.missedWords)
            k == Len(texts)
        IN /\ \A i \in 1..k : reached[i].id \notin ActiveIds(state')
           /\ k > 0 => /\ state'.combo = 0
                       /\ n >= k
                       /\ SubSeq(state'.missedWords, n - k + 1, n) = texts
           /\ IF \E i \in 1..k : reached[i].id = state.targetWordId
              THEN state'.inputBuffer = <<>> /\ state'.targetWordId = null
              ELSE /\ state'.inputBuffer = state.inputBuffer
                   /\ state'.targetWordId = state.targetWordId

\* C2: a word reaching the ground line is removed, appended to missedWords
\* and resets combo; targeting is cleared iff the missed word was the target.
C2_MissedWordRequeued == [][C2_MissStep]_vars

C2_Witness ==
    /\ event.op = "frame" /\ event.missed
    /\ state.missedWords # <<>>
    /\ state.targetWordId # null

----------------------------------------------------------------------------
(* C3: what a keystroke does that fails to extend a non-empty buffer.       *)

\* the precondition of C3 for the key c: the input is processed, the buffer
\* is not empty and no active word starts with the buffer extended by c
C3_Broken(c) ==
    /\ event'.op = "key"
    /\ inputAccepted(state)
    /\ state.inputBuffer # <<>>
    /\ Matching(state, Append(state.inputBuffer, toLowerChar(c))) = {}
    /\ KeyDown(c)

\* C3 as claimed: after a chain break combo is 0, and the buffer is c with
\* the nearest word starting with c as target, or cleared when there is none.
C3_AsClaimed ==
    [][ \A c \in LetterKeys : C3_Broken(c) =>
          LET one == <<toLowerChar(c)>>
          IN /\ state'.combo = 0
             /\ IF Matching(state, one) # {}
                THEN /\ state'.inputBuffer = one
                     /\ state'.targetWordId = Nearest(state, one).id
                ELSE /\ state'.inputBuffer = <<>>
                     /\ state'.targetWordId = null ]_vars

\* C3 (amended): after a chain break the combo is reset and matching restarts
\* from c alone: with no active word starting with c, combo is 0 and the
\* buffer and target are cleared; when the nearest word starting with c is
\* longer than c, combo is 0, the buffer is c and that word is the target;
\* when that word is c itself it is solved by this keystroke: it leaves
\* activeWords, buffer and target are cleared, combo is 1 and frozen is set.
C3_ChainBreakRestarts ==
    [][ \A c \in LetterKeys : C3_Broken(c) =>
          LET one == <<toLowerChar(c)>>
          IN IF Matching(state, one) = {}
             THEN /\ state'.combo = 0
                  /\ state'.inputBuffer = <<>>
                  /\ state'.targetWordId = null
             ELSE IF Nearest(state, one).text # one
             THEN /\ state'.combo = 0
                  /\ state'.inputBuffer = one
                  /\ state'.targetWordId = Nearest(state, one).id
                  /\ state'.activeWords = state.activeWords
             ELSE /\ state'.combo = 1
                  /\ state'.score = state.score + 1
                  /\ state'.inputBuffer = <<>>
                  /\ state'.targetWordId = null
                  /\ Gone = { Nearest(state, one) }
                  /\ state'.frozen ]_vars

C3_Witness ==
    /\ event.op = "key" /\ event.brokenChain /\ event.solved
    /\ state.combo = 1 /\ state.frozen

----------------------------------------------------------------------------
(* C4: what a processed keystroke does to combo when it matches no word.    *)

\* the precondition of C4 for the key c: the input is processed and c matches
\* no active word, neither as an extension of the buffer nor alone
C4_NoMatch(c) ==
    /\ event'.op = "key"
    /\ inputAccepted(state)
    /\ Matching(state, Append(state.inputBuffer, toLowerChar(c))) = {}
    /\ Matching(state, <<toLowerChar(c)>>) = {}
    /\ KeyDown(c)

\* C4 as claimed: combo is 0 after such a keystroke whatever the buffer was.
C4_AsClaimed ==
    [][ \A c \in LetterKeys : C4_NoMatch(c) => state'.combo = 0 ]_vars

\* C4 (amended): a processed keystroke that matches no active word leaves
\* combo 0 when the prior buffer was not empty, and leaves combo unchanged
\* when the prior buffer was empty; buffer and target are cleared either way.
C4_NoMatchResetsOnlyWithInput ==
    [][ \A c \in LetterKeys : C4_NoMatch(c) =>
          /\ state'.combo = IF state.inputBuffer # <<>> THEN 0 ELSE state.combo
          /\ state'.inputBuffer = <<>>
          /\ state'.targetWordId = null ]_vars

C4_Witness ==
    /\ event.op = "key" /\ event.brokenChain /\ ~event.solved
    /\ state.inputBuffer = <<>>
    /\ state.score > 0 /\ state.combo = 0

----------------------------------------------------------------------------
(* C5: chooseTarget(prefix) returns null iff no active word starts with     *)
(* prefix; otherwise the word returned starts with prefix, no other word    *)
(* starting with prefix has a greater y, and among those of the same y it   *)
(* is the first in activeWords order.                                       *)

C5_ChooseTargetNearest ==
    event.op = "chooseTarget" =>
        LET ws == state.activeWords
            m == Matching(state, event.prefix)
            r == event.ret
        IN /\ r = null <=> m = {}
           /\ r # null =>
                /\ r \in m
                /\ \A j \in m : ws[j].y <= ws[r].y
                /\ \A j \in m : ws[j].y = ws[r].y => r <= j

C5_Witness ==
    /\ event.op = "chooseTarget"
    /\ event.ret = 1
    /\ Len(state.activeWords) = 2
    /\ Matching(state, event.prefix) = {1, 2}
    /\ state.activeWords[1].y = state.activeWords[2].y

----------------------------------------------------------------------------
(* C6: a non-null targetWordId is the id of a word in activeWords whose     *)
(* text starts with inputBuffer, in every reachable state.                  *)

C6_TargetIsActivePrefix ==
    state.targetWordId # null =>
        \E w \in Active(state) :
            /\ w.id = state.targetWordId
            /\ startsWith(w.text, state.inputBuffer)

C6_Witness ==
    /\ state.targetWordId # null
    /\ state.inputBuffer # <<>>
    /\ event.op = "frame" /\ event.missed

----------------------------------------------------------------------------
(* C7: whenever gameOver is true, pendingWords, activeWords and missedWords *)
(* are all empty.                                                           *)

C7_GameOverPoolsEmpty == state.gameOver => PoolsEmpty(state)

C7_Witness == state.gameOver /\ event.op = "speech" /\ state.score > 0

----------------------------------------------------------------------------
(* C8: a spawn attempted with pendingWords empty and missedWords not empty  *)
(* spawns one of the missed texts and requeues the others, and whenever     *)
(* gameOver is true the session has had as many solves as it had words at   *)
(* its start.                                                               *)

C8_AllSolvedAtGameOver == state.gameOver => Len(solveLog) = session

C8_RefillStep ==
    ( /\ event'.op = "frame" /\ simulationRuns(state)
      /\ state.spawnTimer + StepDt >= SpawnInterval
      /\ state.pendingWords = <<>> /\ state.missedWords # <<>> ) =>
        \E w \in Active(state') :
            /\ w.id = state.nextWordId
            /\ w.y = topY + StepDt
            /\ \E p \in shuffle(state.missedWords) :
                  w.text = Head(p) /\ state'.pendingWords = Tail(p)

\* C8: missed words are requeued and spawned again, and gameOver implies that
\* the session had as many solves as words.
C8_MissedWordsComeBack ==
    /\ []C8_AllSolvedAtGameOver
    /\ [][C8_RefillStep]_vars

C8_Witness ==
    /\ state.gameOver
    /\ session > 0
    /\ state.nextWordId - 1 > session

----------------------------------------------------------------------------
(* C9: a key event delivered while frozen, while not running or while       *)
(* gameOver leaves inputBuffer, targetWordId, combo, score and the three    *)
(* pools unchanged.                                                         *)

C9_IgnoredStep ==
    (event'.op = "key" /\ (state.frozen \/ ~state.running \/ state.gameOver)) =>
        /\ state'.inputBuffer = state.inputBuffer
        /\ state'.targetWordId = state.targetWordId
        /\ state'.combo = state.combo
        /\ state'.score = state.score
        /\ state'.activeWords = state.activeWords
        /\ state'.pendingWords = state.pendingWords
        /\ state'.missedWords = state.missedWords

\* C9: key events while frozen, not running or gameOver change nothing.
C9_KeysIgnoredWhenSuspended == [][C9_IgnoredStep]_vars

C9_Witness ==
    /\ event.op = "key"
    /\ state.running /\ state.frozen
    /\ state.activeWords # <<>>

----------------------------------------------------------------------------
(* C10: while frozen, a frame changes no active word's y, spawns no word,   *)
(* misses no word, does not advance spawnTimer and leaves combo,            *)
(* pendingWords and missedWords unchanged.                                  *)

C10_FrozenFrame ==
    (event'.op = "frame" /\ state.frozen) =>
        /\ state'.activeWords = state.activeWords
        /\ state'.nextWordId = state.nextWordId
        /\ state'.spawnTimer = state.spawnTimer
        /\ state'.combo = state.combo
        /\ state'.pendingWords = state.pendingWords
        /\ state'.missedWords = state.missedWords
        /\ state'.frozen

\* C10: frames while frozen leave the simulation as it is.
C10_FreezeSuspendsSimulation == [][C10_FrozenFrame]_vars

C10_Witness ==
    /\ event.op = "frame"
    /\ state.frozen /\ state.running
    /\ state.activeWords # <<>>
    /\ state.lastFrameTime # 0

----------------------------------------------------------------------------
(* C11: after a solve sets frozen, frozen stays true until both operations  *)
(* of that same solve have completed; the completion of only one of them,   *)
(* or of an operation that solve did not start, never sets frozen to false. *)
(* The solve that set frozen is the newest sequence in flight (no key is    *)
(* accepted while frozen).  goToSetup and startGame also clear frozen: that *)
(* is the cancellation of a session, not a completion, and is left out.     *)

\* this step is the second completion of the newest sequence in flight
OwnSequenceEnds ==
    /\ inflight # <<>>
    /\ inflight' = SubSeq(inflight, 1, Len(inflight) - 1)

\* a timer or speech event that takes frozen from true to false
C11_CompletionUnfreezes ==
    /\ event'.op \in {"dissolve", "speech"}
    /\ state.frozen
    /\ ~state'.frozen

\* C11 as claimed: a completion unfreezes only by ending the sequence of the
\* solve that froze the game.
C11_OnlyOwnSolveUnfreezes == [][C11_CompletionUnfreezes => OwnSequenceEnds]_vars

----------------------------------------------------------------------------
(* C12: every state with frozen true is eventually followed by a state with *)
(* frozen false, assuming only that timers fire: the speech engine's events *)
(* may never come, or the engine may not exist.                             *)
C12_FrozenEnds == state.frozen ~> ~state.frozen

\* the dissolve has ended and the freeze waits for the speech alone
C12_Witness ==
    /\ state.frozen
    /\ inflight # <<>>
    /\ inflight[Len(inflight)].dissolve
    /\ ~inflight[Len(inflight)].speech

----------------------------------------------------------------------------
(* C13: in every reachable state at most maxActiveWords words are active;   *)
(* spawnWord called with maxActiveWords words active returns false and      *)
(* changes no state.  spawnWord is the one place that adds an active word.  *)
C13_SpawnAtCap ==
    /\ event'.op = "spawnWord"
    /\ Len(state.activeWords) = maxActiveWords

C13_ActiveCap ==
    /\ [](Len(state.activeWords) <= maxActiveWords)
    /\ [][C13_SpawnAtCap => ~event'.ret /\ state' = state]_vars

\* spawnWord was refused at the cap although a text was pending
C13_Witness ==
    /\ event.op = "spawnWord"
    /\ ~event.ret
    /\ Len(state.activeWords) = maxActiveWords
    /\ state.pendingWords # <<>>

----------------------------------------------------------------------------
(* C14: below the cap, spawnWord with pendingWords empty and missedWords    *)
(* non-empty makes pendingWords a permutation of missedWords, empties       *)
(* missedWords and spawns the first refilled text; with both pools empty it *)
(* returns false and changes nothing; otherwise it removes the first        *)
(* pending text and appends one new active word with that text at topY.     *)

Occurrences(q, x) == Cardinality({ i \in 1..Len(q) : q[i] = x })

IsPermutationOf(p, q) ==
    /\ Len(p) = Len(q)
    /\ \A i \in 1..Len(q) : Occurrences(p, q[i]) = Occurrences(q, q[i])

\* the word this step appended to the active list
Spawned == state'.activeWords[Len(state'.activeWords)]

C14_OneWordAppended ==
    /\ event'.ret
    /\ Len(state'.activeWords) = Len(state.activeWords) + 1
    /\ SubSeq(state'.activeWords, 1, Len(state.activeWords)) = state.activeWords
    /\ Spawned.y = topY

C14_BelowCap ==
    /\ event'.op = "spawnWord"
    /\ Len(state.activeWords) < maxActiveWords

C14_Refill ==
    state.pendingWords = <<>> /\ state.missedWords # <<>>
        => /\ IsPermutationOf(<<Spawned.text>> \o state'.pendingWords,
                              state.missedWords)
           /\ state'.missedWords = <<>>
           /\ C14_OneWordAppended

C14_NothingLeft ==
    state.pendingWords = <<>> /\ state.missedWords = <<>>
        => ~event'.ret /\ state' = state

C14_Pending ==
    state.pendingWords # <<>>
        => /\ state'.pendingWords = Tail(state.pendingWords)
           /\ Spawned.text = Head(state.pendingWords)
           /\ state'.missedWords = state.missedWords
           /\ C14_OneWordAppended

C14_SpawnWordCases ==
    [][C14_BelowCap => C14_Refill /\ C14_NothingLeft /\ C14_Pending]_vars

\* a refill from two different missed texts has just spawned one of them
C14_Witness ==
    /\ event.op = "spawnWord"
    /\ event.ret
    /\ state.missedWords = <<>>
    /\ Len(state.pendingWords) = 1
    /\ state.activeWords # <<>>
    /\ state.activeWords[Len(state.activeWords)].text # state.pendingWords[1]

----------------------------------------------------------------------------
(* C15: word ids are unique and strictly increasing in spawn order and are  *)
(* never reused, a word re-spawned after a miss and the words spawned after *)
(* a restart included.  nextWordId counts the ids given so far (line 197),  *)
(* so an id is fresh exactly when it is not below nextWordId.               *)

\* the words spawned in this step: startGame empties the list before it spawns
SpawnedNow ==
    IF event'.op = "start"
    THEN Active(state')
    ELSE { w \in Active(state') : w.id \notin ActiveIds(state) }

C15_FreshIds ==
    \A w \in SpawnedNow : state.nextWordId <= w.id /\ w.id < state'.nextWordId

\* C15 as claimed: every id given is fresh, in every step
C15_AsClaimed == [][C15_FreshIds]_vars

\* the active list is in spawn order with strictly increasing ids, all given
C15_ActiveIdsIncrease ==
    /\ \A i \in 1..Len(state.activeWords) :
          state.activeWords[i].id < state.nextWordId
    /\ \A i, j \in 1..Len(state.activeWords) :
          i < j => state.activeWords[i].id < state.activeWords[j].id

\* resetRuntimeState starts the ids of a session again at 1
C15_RestartAtOne ==
    event'.op = "start"
        => \A i \in 1..Len(state'.activeWords) : state'.activeWords[i].id = i

\* C15 amended: within a session every id given is fresh; a start resets them
C15_IdsFreshWithinSession ==
    /\ []C15_ActiveIdsIncrease
    /\ [][(event'.op # "start" => C15_FreshIds) /\ C15_RestartAtOne]_vars

\* a missed word is active again, under an id no word of the session had
C15_Witness ==
    /\ event.op = "frame"
    /\ session > 0
    /\ state.activeWords # <<>>
    /\ state.activeWords[Len(state.activeWords)].id > session

----------------------------------------------------------------------------
(* C16: when a committed keystroke makes inputBuffer equal to the target's  *)
(* full text, the word is removed from activeWords and inputBuffer and      *)
(* targetWordId are cleared before frozen is set and before the dissolve    *)
(* and the speech start; a solved word is never in activeWords while its    *)
(* solve sequence is in flight.                                             *)

\* in the states the handler passes through, from the commit of the full text
\* on: wherever frozen is set the word is gone and the tracking is cleared
C16_CleanBeforeFreeze(steps) ==
    LET id == steps[1].targetWordId
    IN /\ id \in ActiveIds(steps[1])
       /\ \A i \in 1..Len(steps) :
            steps[i].frozen =>
               /\ id \notin ActiveIds(steps[i])
               /\ steps[i].inputBuffer = <<>>
               /\ steps[i].targetWordId = null

\* the solving keystroke: the order inside the handler, and the state in which
\* the two operations start
C16_SolveStep ==
    event'.op = "key" /\ event'.solved =>
        /\ \A ch \in LetterKeys :
              state' = handleTypedCharacter(state, ch).st
                 => C16_CleanBeforeFreeze(handleTypedCharacter(state, ch).steps)
        /\ Len(inflight') = Len(inflight) + 1
        /\ Len(state'.activeWords) = Len(state.activeWords) - 1
        /\ state'.frozen

\* the solved word does not come back: nothing is spawned while the freeze
\* lasts, and what a session spawns later has an id the word never had
C16_NoReturn ==
    /\ state.frozen /\ state'.frozen => ActiveIds(state') \subseteq ActiveIds(state)
    /\ event'.op # "start" =>
          \A w \in Active(state') :
             w.id \in ActiveIds(state) \/ w.id >= state.nextWordId

C16_SolvedWordLeavesFirst == [][C16_SolveStep /\ C16_NoReturn]_vars

\* a solve with another word still active, its sequence in flight
C16_Witness ==
    /\ event.op = "key"
    /\ event.solved
    /\ state.frozen
    /\ state.activeWords # <<>>
    /\ inflight # <<>>

----------------------------------------------------------------------------
(* C17: Backspace with an empty inputBuffer changes nothing; with a         *)
(* non-empty buffer it removes exactly the last character, and then         *)
(* targetWordId is null if the buffer became empty, otherwise the id of the *)
(* nearest-to-ground active word whose text starts with the shortened       *)
(* buffer (null if none); it never changes combo, score or a word pool.     *)

\* id is the id of a word nearest to the ground among those starting with prefix
C17_NearestId(s, prefix, id) ==
    \E i \in Matching(s, prefix) :
       /\ s.activeWords[i].id = id
       /\ \A j \in Matching(s, prefix) : s.activeWords[j].y <= s.activeWords[i].y

C17_Shortened ==
    /\ Len(state'.inputBuffer) = Len(state.inputBuffer) - 1
    /\ state'.inputBuffer \o <<state.inputBuffer[Len(state.inputBuffer)]>>
          = state.inputBuffer
    /\ IF state'.inputBuffer = <<>> \/ Matching(state, state'.inputBuffer) = {}
       THEN state'.targetWordId = null
       ELSE C17_NearestId(state, state'.inputBuffer, state'.targetWordId)

C17_Untouched ==
    /\ state'.combo = state.combo
    /\ state'.score = state.score
    /\ state'.pendingWords = state.pendingWords
    /\ state'.activeWords = state.activeWords
    /\ state'.missedWords = state.missedWords

C17_BackspaceStep ==
    event'.op = "Backspace" =>
        /\ C17_Untouched
        /\ IF state.inputBuffer = <<>> THEN state' = state ELSE C17_Shortened

C17_Backspace == [][C17_BackspaceStep]_vars

\* the shortened buffer matches the second word, which the longer one did not,
\* and Backspace made it the target
C17_Witness ==
    /\ event.op = "Backspace"
    /\ state.inputBuffer # <<>>
    /\ state.targetWordId = 2
    /\ Len(state.activeWords) = 2
    /\ ~startsWith(state.activeWords[2].text, event.had)
    /\ startsWith(state.activeWords[1].text, event.had)

----------------------------------------------------------------------------
(* C18: Escape sets inputBuffer to empty and targetWordId to null from any  *)
(* state and leaves combo, score, activeWords, pendingWords, missedWords    *)
(* and the phase flags unchanged.                                           *)
C18_EscapeStep ==
    event'.op = "Escape" =>
        /\ state'.inputBuffer = <<>>
        /\ state'.targetWordId = null
        /\ state' = [state EXCEPT !.inputBuffer = <<>>, !.targetWordId = null]
        /\ state'.combo = state.combo /\ state'.score = state.score
        /\ state'.activeWords = state.activeWords
        /\ state'.pendingWords = state.pendingWords
        /\ state'.missedWords = state.missedWords
        /\ state'.running = state.running
        /\ state'.frozen = state.frozen
        /\ state'.gameOver = state.gameOver

C18_Escape == [][C18_EscapeStep]_vars

\* Escape has cleared a buffer during a freeze, the combo kept
C18_Witness ==
    /\ event.op = "Escape"
    /\ event.had # <<>>
    /\ state.frozen
    /\ state.inputBuffer = <<>>
    /\ state.targetWordId = null
    /\ state.combo = 2

----------------------------------------------------------------------------
(* C19: running and gameOver are never both true in any reachable state,    *)
(* across start, tick, solve, solve-sequence completion, completion         *)
(* detection and go-back.                                                   *)
C19_RunningXorGameOver == ~(state.running /\ state.gameOver)

\* the dissolve timer ended the last solve sequence and with it the game
C19_Witness ==
    /\ state.gameOver
    /\ ~state.running
    /\ event.op = "dissolve"
    /\ panel = "game"

----------------------------------------------------------------------------
(* C20: maybeFinishGame is idempotent: called again in a state where all    *)
(* three pools are empty it leaves gameOver true and running false and      *)
(* changes neither score nor combo; called when any pool is non-empty it    *)
(* changes no state at all.                                                 *)
C20_CallStep ==
    event'.op = "maybeFinishGame" =>
        /\ IF PoolsEmpty(state)
           THEN /\ state'.gameOver
                /\ ~state'.running
                /\ state'.score = state.score
                /\ state'.combo = state.combo
           ELSE state' = state
        /\ state.gameOver /\ ~state.running /\ PoolsEmpty(state) => state' = state
        /\ maybeFinishGame(state') = state'

C20_MaybeFinishGameIdempotent == [][C20_CallStep]_vars

\* a second call at the end of a game: over, not running, the score as it was
C20_Witness ==
    /\ event.op = "maybeFinishGame"
    /\ event.again
    /\ state.gameOver
    /\ ~state.running
    /\ state.score = 3
    /\ state.combo = 2

----------------------------------------------------------------------------
(* C21: score is a non-negative integer that never decreases between two    *)
(* states of the same session; it returns to 0 only when a new session is   *)
(* started.                                                                 *)
C21_ScoreStep ==
    /\ event'.op # "start" => state'.score >= state.score
    /\ event'.op = "start" => state'.score = 0

C21_ScoreMonotone ==
    /\ [](state.score \in Nat)
    /\ [][C21_ScoreStep]_vars

\* a word was missed after a solve and the score is still there
C21_Witness ==
    /\ event.op = "frame"
    /\ event.missed
    /\ state.score > 0
    /\ state.combo = 0

----------------------------------------------------------------------------
(* C22: goToSetup fully discards session state: afterwards score and combo  *)
(* are 0, inputBuffer is empty, targetWordId is null, frozen is false and   *)
(* pendingWords, activeWords and missedWords are empty.                     *)
C22_Discarded(s) ==
    /\ s.score = 0
    /\ s.combo = 0
    /\ s.inputBuffer = <<>>
    /\ s.targetWordId = null
    /\ ~s.frozen
    /\ PoolsEmpty(s)

\* C22 as claimed: every go-back ends in a state with nothing of the session
C22_GoToSetupDiscards == [][event'.op = "back" => C22_Discarded(state')]_vars

----------------------------------------------------------------------------
(* C23: a solve sequence still in flight when goToSetup happens is          *)
(* abandoned: its later completion changes none of running, gameOver,       *)
(* frozen, score or combo, neither in the Setup state (running and gameOver *)
(* both stay false until a new session is started) nor in a session started *)
(* afterwards.  On the setup panel every sequence in flight is an abandoned *)
(* one.                                                                     *)
C23_FlagsAndScoreKept ==
    /\ state'.running = state.running
    /\ state'.gameOver = state.gameOver
    /\ state'.frozen = state.frozen
    /\ state'.score = state.score
    /\ state'.combo = state.combo

\* C23 as claimed, for the Setup state: a completion there changes nothing,
\* and running and gameOver are false after it
C23_CompletionInSetup ==
    panel = "setup" /\ event'.op \in {"dissolve", "speech"}
        => C23_FlagsAndScoreKept /\ ~state'.running /\ ~state'.gameOver

C23_AbandonedSequenceIsInert == [][C23_CompletionInSetup]_vars

----------------------------------------------------------------------------
(* C24: with cat and car both active, score 0, combo 0 and an empty buffer: *)
(* typing c targets whichever of the two has the greater y; typing c, a, r  *)
(* solves car whichever was targeted after c; and when cat is then solved   *)
(* by c, a, t after the freeze, with no miss and no chain break in between, *)
(* score is 3 and combo is 2.                                               *)

\* the active words with the text
WithText(s, text) == { w \in Active(s) : w.text = text }

\* this step is the keydown of key, delivered while input is accepted
Typed(key) ==
    /\ event'.op = "key"
    /\ inputAccepted(state)
    /\ state' = onKeyDown(state, key).st

\* cat and car are the two active words
C24_CatAndCar ==
    /\ Len(state.activeWords) = 2
    /\ WithText(state, wCat) # {}
    /\ WithText(state, wCar) # {}

\* c on an empty buffer targets the lower of the two
C24_TypeC ==
    C24_CatAndCar /\ state.inputBuffer = <<>> /\ Typed("c") =>
        /\ state'.inputBuffer = <<"c">>
        /\ \E w \in Active(state) :
              /\ w.id = state'.targetWordId
              /\ \A v \in Active(state) : v.y <= w.y

\* a after c keeps both words possible
C24_TypeA ==
    C24_CatAndCar /\ state.inputBuffer = <<"c">> /\ Typed("a") =>
        /\ state'.inputBuffer = <<"c", "a">>
        /\ state'.targetWordId \in ActiveIds(state)
        /\ state'.activeWords = state.activeWords
        /\ state'.combo = state.combo

\* r after c, a solves car, whichever word was the target
C24_TypeR ==
    C24_CatAndCar /\ state.inputBuffer = <<"c", "a">> /\ Typed("r") =>
        /\ event'.solved
        /\ WithText(state', wCar) = {}
        /\ Active(state') = WithText(state, wCat)
        /\ state'.combo = state.combo + 1
        /\ state'.score = state.score + state.combo + 1
        /\ state.score = 0 /\ state.combo = 0 => state'.score = 1 /\ state'.combo = 1

\* t after c, a solves cat; after an unbroken first solve that makes 3 and 2
C24_TypeT ==
    /\ WithText(state, wCat) # {}
    /\ WithText(state, wCar) = {}
    /\ state.inputBuffer = <<"c", "a">>
    /\ Typed("t")
    => /\ event'.solved
       /\ WithText(state', wCat) = {}
       /\ state.score = 1 /\ state.combo = 1 => state'.score = 3 /\ state'.combo = 2

C24_CarThenCat == [][C24_TypeC /\ C24_TypeA /\ C24_TypeR /\ C24_TypeT]_vars

\* car has just been solved beside cat, for the first point of the session
C24_Witness ==
    /\ event.op = "key"
    /\ event.solved
    /\ state.frozen
    /\ Len(state.activeWords) = 1
    /\ state.activeWords[1].text = wCat
    /\ state.score = 1
    /\ state.combo = 1

----------------------------------------------------------------------------
(* C25: with go and goat both active and an empty buffer, typing g, o, a, t *)
(* makes goat the target once a is typed (inputBuffer is goa and            *)
(* targetWordId is goat's id after the third keystroke) and solves goat on  *)
(* t, whichever of the two words is nearer to the ground.                   *)

C25_GoAndGoat ==
    /\ Len(state.activeWords) = 2
    /\ WithText(state, wGo) # {}
    /\ WithText(state, wGoat) # {}

\* goat is the lower of the two
C25_GoatNearer ==
    \A w \in WithText(state, wGoat), v \in WithText(state, wGo) : w.y > v.y

C25_TargetIs(text) == \E w \in WithText(state, text) : state'.targetWordId = w.id

\* g, then o: the buffer grows and nothing is solved
C25_TypeG ==
    C25_GoAndGoat /\ state.inputBuffer = <<>> /\ Typed("g") =>
        state'.inputBuffer = <<"g">> /\ state'.activeWords = state.activeWords

C25_TypeO ==
    C25_GoAndGoat /\ state.inputBuffer = <<"g">> /\ Typed("o") =>
        state'.inputBuffer = <<"g", "o">> /\ state'.activeWords = state.activeWords

\* a: the buffer is goa and goat is the target
C25_TypeA ==
    C25_GoAndGoat /\ state.inputBuffer = <<"g", "o">> /\ Typed("a") =>
        /\ state'.inputBuffer = <<"g", "o", "a">>
        /\ C25_TargetIs(wGoat)
        /\ state'.activeWords = state.activeWords

\* t: goat is solved
C25_TypeT ==
    C25_GoAndGoat /\ state.inputBuffer = <<"g", "o", "a">> /\ Typed("t") =>
        /\ event'.solved
        /\ Active(state') = WithText(state, wGo)

\* C25 as claimed: the four keystrokes go through whichever word is nearer
C25_AsClaimed == [][C25_TypeG /\ C25_TypeO /\ C25_TypeA /\ C25_TypeT]_vars

\* with goat nearer, g and o target goat and solve nothing
C25_GoatFirst ==
    C25_GoatNearer =>
        /\ C25_TypeG /\ C25_TypeO
        /\ C25_GoAndGoat /\ state.inputBuffer \in {<<>>, <<"g">>}
             /\ (Typed("g") \/ Typed("o")) /\ state'.inputBuffer # <<>>
             => C25_TargetIs(wGoat)

\* with go nearer, g targets go and o solves it: the freeze begins and a key
\* typed during it is ignored
C25_GoFirst ==
    ~C25_GoatNearer =>
        /\ C25_GoAndGoat /\ state.inputBuffer = <<>> /\ Typed("g") =>
              state'.inputBuffer = <<"g">> /\ C25_TargetIs(wGo)
        /\ C25_GoAndGoat /\ state.inputBuffer = <<"g">> /\ Typed("o") =>
              /\ event'.solved
              /\ Active(state') = WithText(state, wGoat)
              /\ state'.inputBuffer = <<>>
              /\ state'.frozen
              /\ \A key \in {"a", "t"} : onKeyDown(state', key).st = state'

\* C25 amended
C25_GoatWhenNearer ==
    [][C25_GoatFirst /\ C25_GoFirst /\ C25_TypeA /\ C25_TypeT]_vars

\* goat has just been solved beside go
C25_Witness ==
    /\ event.op = "key"
    /\ event.solved
    /\ state.frozen
    /\ Len(state.activeWords) = 1
    /\ state.activeWords[1].text = wGo

----------------------------------------------------------------------------
(* C26: a session never starts with zero words: a startGame that is         *)
(* rejected (no wordbook selected, a failed fetch, an empty word list)      *)
(* leaves running false and all session state unchanged, and whenever       *)
(* running becomes true pendingWords plus activeWords hold at least one     *)
(* word.                                                                    *)
C26_StartStep ==
    /\ event'.op = "rejected" => state' = state
    /\ event'.op = "start" =>
          /\ state'.running
          /\ Len(state'.pendingWords) + Len(state'.activeWords) >= 1

\* C26 as claimed
C26_NeverZeroWords == [][C26_StartStep]_vars

----------------------------------------------------------------------------
\* The settings endpoints of main.go.  net/http runs every request in its
\* own goroutine and the server struct holds no lock, so a PUT handler is two
\* steps: up to loadConfigOptional, and from writeConfig to the response.

MaxHandlers == 2

letters == <<"letters">>

\* request bodies of PUT settings/accent and PUT settings/wordbook
AccentBodies == { enUS, enGB, <<" ", "en-GB", " ">>, <<"fr-FR">>, <<"en-gb">>, <<>> }
WordbookBodies == { letters, <<"animals", " ">>, <<"..", "/", "letters">>, <<" ">> }

\* the config files the server can be started on
ConfigFiles ==
    { emptyConfig, unreadable,
      [Accent |-> enGB, Wordbook |-> letters, err |-> FALSE],
      [Accent |-> <<>>, Wordbook |-> letters, err |-> FALSE] }

\* what a handler answers: a status and, on 200, the settings snapshot
Answer(op, status, accent, wordbook) ==
    [op |-> op, status |-> status, Accent |-> accent, Wordbook |-> wordbook]

Failure(op, status) == Answer(op, status, <<>>, <<>>)

\* handleSettings: the answer to GET settings on the config file cfg
handleSettings(cfg) ==
    IF cfg.err THEN Failure("GET settings", 500)
    ELSE Answer("GET settings", 200,
                IF TrimSpace(cfg.Accent) = <<>> THEN enUS ELSE TrimSpace(cfg.Accent),
                TrimSpace(cfg.Wordbook))

\* handleSettingsAccent up to writeConfig: the answer it gives at once, or
\* the config it is about to write
handleSettingsAccent(cfg, body) ==
    LET accent == TrimSpace(body) IN
    IF accent # enUS /\ accent # enGB
    THEN [done |-> TRUE, answer |-> Failure("PUT settings/accent", 400)]
    ELSE IF cfg.err
    THEN [done |-> TRUE, answer |-> Failure("PUT settings/accent", 500)]
    ELSE [done |-> FALSE, route |-> "PUT settings/accent",
          cfg |-> [cfg EXCEPT !.Accent = accent]]

\* handleSettingsWordbook up to writeConfig
handleSettingsWordbook(cfg, body) ==
    LET wordbook == TrimSpace(body) IN
    IF wordbook = <<>> \/ \E i \in 1..Len(wordbook) : wordbook[i] = "/"
    THEN [done |-> TRUE, answer |-> Failure("PUT settings/wordbook", 400)]
    ELSE IF cfg.err
    THEN [done |-> TRUE, answer |-> Failure("PUT settings/wordbook", 500)]
    ELSE [done |-> FALSE, route |-> "PUT settings/wordbook",
          cfg |-> [cfg EXCEPT !.Accent = IF @ = <<>> THEN enUS ELSE @,
                              !.Wordbook = wordbook]]

InitSettings ==
    /\ state = InitialState
    /\ panel = "setup"
    /\ fetches = 0
    /\ inflight = <<>>
    /\ session = 0
    /\ solveLog = <<>>
    /\ event = Failure("init", 0)
    /\ config \in ConfigFiles
    /\ handlers = {}
    /\ lastSaved = <<>>
    /\ entries = {}
    /\ NoSession

\* a GET settings request, served in one step
GetSettings ==
    /\ event' = handleSettings(config)
    /\ UNCHANGED gameVars
    /\ UNCHANGED serverVars

\* a PUT request runs up to its writeConfig call, or to its error answer
Received(h) ==
    /\ IF h.done
       THEN event' = h.answer /\ UNCHANGED handlers
       ELSE /\ Cardinality(handlers) < MaxHandlers
            /\ handlers' = handlers \cup { [route |-> h.route, cfg |-> h.cfg] }
            /\ event' = Failure("loadConfigOptional", 0)
    /\ UNCHANGED gameVars
    /\ UNCHANGED <<config, lastSaved, entries>>

PutAccent == \E body \in AccentBodies : Received(handleSettingsAccent(config, body))

PutWordbook == \E body \in WordbookBodies : Received(handleSettingsWordbook(config, body))

\* writeConfig succeeds and the handler answers with what it wrote
ConfigWritten ==
    /\ \E h \in handlers :
         /\ handlers' = handlers \ {h}
         /\ config' = h.cfg
         /\ event' = Answer(h.route, 200, h.cfg.Accent, h.cfg.Wordbook)
         /\ lastSaved' = IF h.route = "PUT settings/accent" THEN h.cfg.Accent
                         ELSE lastSaved
    /\ UNCHANGED gameVars
    /\ UNCHANGED entries

\* writeConfig fails before it replaces the file
WriteFailed ==
    /\ \E h \in handlers :
         /\ handlers' = handlers \ {h}
         /\ event' = Failure(h.route, 500)
    /\ UNCHANGED gameVars
    /\ UNCHANGED <<config, lastSaved, entries>>

NextSettings == GetSettings \/ PutAccent \/ PutWordbook \/ ConfigWritten \/ WriteFailed

SpecSettings == InitSettings /\ [][NextSettings]_vars

\* an answer of PUT settings/accent
AccentAnswer(status) == event'.op = "PUT settings/accent" /\ event'.status = status

\* a rejected or failed PUT settings/accent leaves the persisted settings alone
C27_RejectedKeepsSettings ==
    AccentAnswer(400) \/ AccentAnswer(500) => config' = config

\* an accepted value is one of the two accents, persisted and echoed
C27_AcceptedIsSaved ==
    AccentAnswer(200) =>
        /\ event'.Accent \in { enUS, enGB }
        /\ config'.Accent = event'.Accent

\* a GET settings answered while no PUT settings/accent is in progress
\* returns the accent of the last successful PUT settings/accent
C27_GetReturnsSaved ==
    /\ event'.op = "GET settings" /\ event'.status = 200
    /\ lastSaved # <<>>
    /\ \A h \in handlers : h.route # "PUT settings/accent"
    => event'.Accent = lastSaved

\* C27: PUT settings/accent accepts exactly en-US and en-GB after trimming;
\* a rejected value leaves the persisted settings unchanged; an accepted value
\* is persisted, echoed, and returned by every later GET settings until the
\* next successful PUT settings/accent
C27_AcceptedAccentSticks ==
    [][C27_RejectedKeepsSettings /\ C27_AcceptedIsSaved /\ C27_GetReturnsSaved]_vars

----------------------------------------------------------------------------
\* the step ends a solve sequence: Promise.all resolved and onWordSolved resumed
SolveResume == event'.op \in {"dissolve", "speech"} /\ Len(inflight') < Len(inflight)

\* the solve of the last outstanding word starts a freeze with the session
\* still running and not over
C28_LastSolveFreezes ==
    event'.op = "key" /\ event'.solved /\ PoolsEmpty(state')
        => state'.frozen /\ state'.running /\ ~state'.gameOver

\* during a freeze the session is running and not over
C28_FreezeKeepsRunning == state.frozen => state.running /\ ~state.gameOver

\* the end of the solve sequence of the last outstanding word ends the session
C28_ResumeFinishes ==
    SolveResume /\ state.frozen /\ PoolsEmpty(state)
        => state'.gameOver /\ ~state'.running /\ ~state'.frozen

\* a tick or a solve-resume in a running, non-frozen session with empty pools
\* ends the session
C28_EmptyTickFinishes ==
    /\ event'.op = "frame" \/ SolveResume
    /\ state.running /\ ~state.frozen /\ PoolsEmpty(state)
    => state'.gameOver

\* a running session with nothing left in its pools, on the game panel
C28_Outstanding == panel = "game" /\ state.running /\ PoolsEmpty(state)

\* such a session ends by becoming Complete, unless the player goes back or
\* a startGame call still waiting for its word list replaces it
C28_EndsComplete ==
    C28_Outstanding /\ ~C28_Outstanding'
        => state'.gameOver \/ event'.op = "back" \/ event'.op = "start"

\* C28: the solve of the last outstanding word freezes a session that stays
\* running and not over for the whole freeze, and the end of its solve
\* sequence makes gameOver true; a tick or solve-resume of a running,
\* non-frozen session with all three pools empty makes gameOver true; a
\* running session with all three pools empty does not stay so for ever, and
\* it ends Complete unless the player goes back (or starts again) first
C28_EmptySessionCompletes ==
    /\ [](C28_FreezeKeepsRunning)
    /\ [][C28_LastSolveFreezes /\ C28_ResumeFinishes /\ C28_EmptyTickFinishes]_vars
    /\ [][C28_EndsComplete]_vars
    /\ (C28_Outstanding ~> ~C28_Outstanding)

\* the solve sequence of the last outstanding word has just finished the session
C28_Witness ==
    /\ event.op \in {"dissolve", "speech"}
    /\ inflight = <<>>
    /\ panel = "game"
    /\ state.gameOver /\ ~state.running
    /\ PoolsEmpty(state)
    /\ session > 0 /\ Len(solveLog) > 0

----------------------------------------------------------------------------
\* the y the word with this id had before the step; a word that was not
\* active then (or a step that starts a session, which numbers its words
\* anew) counts from the top line
YBefore(id) ==
    IF event'.op # "start" /\ id \in ActiveIds(state)
    THEN (CHOOSE w \in { state.activeWords[i] : i \in 1..Len(state.activeWords) }
              : w.id = id).y
    ELSE topY

\* the step is a frame in which updateWorld ran
Tick == event'.op = "frame" /\ simulationRuns(state)

\* in a tick every word left in activeWords has advanced by the tick's dt and
\* is above the ground line; in any other step it is where it was, or at the
\* top line if it is new
C29_WordsStep ==
    \A i \in 1..Len(state'.activeWords) :
        LET word == state'.activeWords[i]
        IN IF Tick
           THEN word.y = YBefore(word.id) + StepDt /\ word.y < groundY
           ELSE word.y = YBefore(word.id)

\* every active word is between the top line and the ground line
C29_WordsInTheAir ==
    \A i \in 1..Len(state.activeWords) :
        state.activeWords[i].y >= topY /\ state.activeWords[i].y < groundY

\* C29: every active word starts at the top line, its y never decreases while
\* it is active, all active words advance by the same amount in a tick, and
\* after every tick every word still in activeWords is strictly above the
\* ground line
C29_WordsFallTogether == [](C29_WordsInTheAir) /\ [][C29_WordsStep]_vars

\* a tick has just moved two words, one of them to the last line above the ground
C29_Witness ==
    /\ event.op = "frame"
    /\ Len(state.activeWords) >= 2
    /\ state.activeWords[1].y = groundY - 1
    /\ state.activeWords[2].y < groundY - 1
    /\ state.activeWords[2].y > topY

----------------------------------------------------------------------------
\* updateWorld and loop called on their own, over every spawnTimer a call can
\* find (0 after resetRuntimeState, below one period after updateWorld) and,
\* for updateWorld, every dt up to more than two periods.

\* the longest dt and the longest time between two frames, in quanta
MaxDt == 2 * SpawnInterval + 1

\* the dt of loop for a frame that comes elapsed quanta after the last one:
\* Math.min(0.1, elapsed), the clamp being one quantum, less than a period
frameDt(s, elapsed) == IF s.lastFrameTime = 0 THEN 0 ELSE Min(1, elapsed)

\* n active words that have just been spawned
FreshList(n) == [i \in 1..n |-> [id |-> i, text |-> wA, y |-> topY]]

\* the history record of a call: its dt and the nextWordId it found
TickEvent(op, dt) == [op |-> op, dt |-> dt, nextWordId |-> state.nextWordId]

InitTick ==
    /\ state \in { [InitialState EXCEPT !.running = TRUE,
                                        !.activeWords = FreshList(n),
                                        !.nextWordId = n + 1,
                                        !.pendingWords = pending,
                                        !.missedWords = missed,
                                        !.spawnTimer = timer,
                                        !.lastFrameTime = last]
                   : n \in {0, maxActiveWords - 2, maxActiveWords - 1, maxActiveWords},
                     pending \in PoolLists, missed \in PoolLists,
                     timer \in 0..(SpawnInterval - 1), last \in 0..1 }
    /\ panel = "game"
    /\ fetches = 0
    /\ inflight = <<>>
    /\ event = [op |-> "init", dt |-> 0, nextWordId |-> state.nextWordId]
    /\ session = 0
    /\ solveLog = <<>>
    /\ NoSession
    /\ ServerIdle

\* one call of updateWorld(dt), on the state as it was constructed
UpdateWorldCall ==
    /\ event.op = "init"
    /\ \E dt \in 0..MaxDt :
         /\ state' \in updateWorld(state, dt)
         /\ event' = TickEvent("updateWorld", dt)
    /\ UNCHANGED <<panel, fetches, inflight, session, solveLog>>
    /\ UNCHANGED serverVars
    /\ UNCHANGED wordVars

\* one call of loop(now), the frame coming elapsed quanta after the last one
LoopCall ==
    /\ event.op = "init"
    /\ \E elapsed \in 0..MaxDt :
         /\ state' \in loop(state, frameDt(state, elapsed))
         /\ event' = TickEvent("loop", frameDt(state, elapsed))
    /\ UNCHANGED <<panel, fetches, inflight, session, solveLog>>
    /\ UNCHANGED serverVars
    /\ UNCHANGED wordVars

NextTick == UpdateWorldCall \/ LoopCall

SpecTick == InitTick /\ [][NextTick]_vars

\* the whole periods in spawnTimer once the call has added its dt
WholePeriods == (state.spawnTimer + event'.dt) \div SpawnInterval

\* the spawns that can succeed: room under the cap, and words left to spawn
SpawnRoom ==
    Min(maxActiveWords - Len(state.activeWords),
        Len(state.pendingWords) + Len(state.missedWords))

\* updateWorld leaves the part of spawnTimer below one period and has called
\* spawnWord once per whole period: as many words are spawned, up to the room
C30_OneSpawnPerPeriod ==
    /\ state'.spawnTimer = (state.spawnTimer + event'.dt) % SpawnInterval
    /\ state'.spawnTimer < SpawnInterval
    /\ state'.nextWordId - state.nextWordId = Min(WholePeriods, SpawnRoom)

\* a frame never has two whole periods in spawnTimer, nor spawns two words
C30_ClampedFrame ==
    /\ event'.dt <= 1
    /\ WholePeriods <= 1
    /\ state'.nextWordId - state.nextWordId <= 1

C30_TickStep ==
    /\ event'.op \in {"updateWorld", "loop"} => C30_OneSpawnPerPeriod
    /\ event'.op = "loop" => C30_ClampedFrame

\* C30: updateWorld attempts exactly one spawn for each whole time unit
\* accumulated in spawnTimer and leaves spawnTimer below one unit; the dt of
\* a frame is clamped below one unit, so no frame attempts more than one spawn
C30_SpawnsFollowTimer == [][C30_TickStep]_vars

\* a call of updateWorld with more than two periods of dt has spawned two words
C30_Witness ==
    /\ event.op = "updateWorld"
    /\ event.dt > 2 * SpawnInterval
    /\ state.nextWordId = event.nextWordId + 2
    /\ state.spawnTimer < SpawnInterval

----------------------------------------------------------------------------
\* C31: word conservation: in every reachable state the texts in
\* pendingWords, activeWords and missedWords together with the texts solved
\* so far are, as a multiset, the words the session started with
C31_WordsConserved == started = solved (+) WordsOf(state)

\* a session with one word solved and another missed and waiting to come back
C31_Witness ==
    /\ panel = "game"
    /\ solved # EmptyBag
    /\ state.missedWords # <<>>
    /\ started = solved (+) BagOf(state.missedWords)

----------------------------------------------------------------------------
\* C32: in every reachable state inputBuffer is non-empty iff targetWordId is
\* non-null: a typed prefix always has a target, an empty buffer never has one
C32_BufferIffTarget == (state.inputBuffer # <<>>) <=> (state.targetWordId # null)

\* a prefix that is not a whole word is in the buffer, with two words active
C32_Witness ==
    /\ event.op = "key"
    /\ state.inputBuffer # <<>>
    /\ state.targetWordId \in ActiveIds(state)
    /\ Len(state.activeWords) >= 2

----------------------------------------------------------------------------
\* the position chooseTarget(inputBuffer) would return in this state
C33_ChosenNow == chooseTarget(state, state.inputBuffer)

\* C33: in every reachable state with a target, the targeted word is the
\* nearest-to-ground active word whose text starts with inputBuffer, the one
\* chooseTarget(inputBuffer) would return now
C33_TargetStaysNearest ==
    state.targetWordId # null =>
        /\ C17_NearestId(state, state.inputBuffer, state.targetWordId)
        /\ C33_ChosenNow # null
        /\ state.activeWords[C33_ChosenNow].id = state.targetWordId

\* a tick has moved the target and a second word that matches the buffer
C33_Witness ==
    /\ event.op = "frame"
    /\ state.targetWordId # null
    /\ Cardinality(Matching(state, state.inputBuffer)) >= 2

----------------------------------------------------------------------------
\* C34: in every reachable state in which frozen is true, inputBuffer is empty
\* and targetWordId is null, so that Backspace and Escape, which do not test
\* frozen, change nothing during a freeze
C34_FrozenHasNoInput ==
    state.frozen =>
        /\ state.inputBuffer = <<>>
        /\ state.targetWordId = null
        /\ \A key \in ControlKeys : onKeyDown(state, key).st = state

\* a key has been pressed during a freeze, with a word still active
C34_Witness ==
    /\ state.frozen
    /\ event.op = "key"
    /\ ~event.solved
    /\ state.activeWords # <<>>

----------------------------------------------------------------------------
\* the score of a session of n words solved in one unbroken chain
MaxScore(n) == (n * (n + 1)) \div 2

\* the final score of a session of N words is between N and N*(N+1)/2
C35_ScoreBounds ==
    state.gameOver => session <= state.score /\ state.score <= MaxScore(session)

\* C35 as claimed: the final score is N*(N+1)/2 exactly when no miss and no
\* chain break occurred during the session
C35_AsClaimed ==
    C35_ScoreBounds
    /\ (state.gameOver => (state.score = MaxScore(session) <=> spoiled = "none"))

\* C35: when a session that started with N words reaches gameOver, its final
\* score satisfies N <= score <= N*(N+1)/2, and score equals N*(N+1)/2 exactly
\* when no miss and no chain break found a combo above 0, that is, when none
\* occurred after the first solve
C35_FinalScore ==
    C35_ScoreBounds
    /\ (state.gameOver => (state.score = MaxScore(session) <=> spoiled # "costly"))

\* a session of two words is over with the full score after a miss or chain
\* break that came before its first solve
C35_Witness ==
    /\ state.gameOver
    /\ session = 2
    /\ state.score = MaxScore(2)
    /\ spoiled = "free"

----------------------------------------------------------------------------
\* the state after the key events of keys, one keydown each, in order
RECURSIVE TypeKeys(_, _)
TypeKeys(s, keys) ==
    IF keys = <<>> THEN s
    ELSE TypeKeys(onKeyDown(s, Head(keys)).st, Tail(keys))

\* the active word nearest to the ground: the one chooseTarget returns for
\* the empty prefix, which every text starts with
NearestWord(s) == s.activeWords[chooseTarget(s, <<>>)]

\* C36: every word the engine accepts into a session can be solved: whenever
\* input is accepted and a word is active, the key events of the text of the
\* nearest active word, typed after Escape, solve that word, whatever the
\* wordbook line it came from and whatever other word it is a prefix of
C36_NearestWordSolvable ==
    inputAccepted(state) /\ state.activeWords # <<>> =>
        NearestWord(state).id
            \notin ActiveIds(TypeKeys(state, <<"Escape">> \o NearestWord(state).text))

----------------------------------------------------------------------------
\* the settings a GET would report for the config file cfg
Reported(cfg) == handleSettings(cfg)

\* a successful PUT of one field leaves the other field of the persisted
\* settings as it was just before the write
C37_WriteKeepsOtherField ==
    /\ AccentAnswer(200) => Reported(config').Wordbook = Reported(config).Wordbook
    /\ event'.op = "PUT settings/wordbook" /\ event'.status = 200
           => Reported(config').Accent = Reported(config).Accent

\* C37: the two settings writes do not lose each other's update: whether a
\* PUT settings/accent and a PUT settings/wordbook run alone or concurrently,
\* each successful write changes its own field only, so that after both the
\* persisted settings hold the new accent and the new wordbook
C37_NoLostUpdate == [][C37_WriteKeepsOtherField]_vars

----------------------------------------------------------------------------
\* The wordbook endpoints of main.go over a wordbooks directory.  A file name
\* is a sequence of tokens, the extension being one token; the file system
\* tells names apart by case, as on Linux.

\* a directory entry: its name, whether it is a directory, its lines
fileLower  == [name |-> <<"a", ".txt">>, isDir |-> FALSE, lines |-> <<wGo, wGoat>>]
fileUpper  == [name |-> <<"A", ".TXT">>, isDir |-> FALSE, lines |-> <<wCat, wCar>>]
fileSpaced == [name |-> <<" ", "b", " ", ".txt">>, isDir |-> FALSE, lines |-> <<wA, wGo>>]
fileHidden == [name |-> <<".txt">>, isDir |-> FALSE, lines |-> <<wA>>]
fileNotes  == [name |-> <<"c", ".md">>, isDir |-> FALSE, lines |-> <<wA>>]
dirOld     == [name |-> <<"d", ".txt">>, isDir |-> TRUE, lines |-> <<>>]

DirEntries == { fileLower, fileUpper, fileSpaced, fileHidden, fileNotes, dirOld }

\* the names a client may ask for, besides the listed ones
RawNames == { <<"a">>, <<" ", "a", " ">>, <<"missing">>, <<"..", "/", "a">>, <<" ">>, <<"d">> }

\* strings.ToLower on a token
ToLower(token) ==
    CASE token = ".TXT" -> ".txt"
      [] token = "A" -> "a"
      [] OTHER -> token

\* filepath.Ext: the suffix from the last dot on
Ext(name) ==
    IF name # <<>> /\ name[Len(name)] \in {".txt", ".TXT", ".md"}
    THEN <<name[Len(name)]>>
    ELSE <<>>

\* strings.HasSuffix(strings.ToLower(name), ".txt")
HasTxtSuffix(name) == name # <<>> /\ ToLower(name[Len(name)]) = ".txt"

\* the name listWordbooks derives from a file name
BaseName(name) == TrimSpace(SubSeq(name, 1, Len(name) - Len(Ext(name))))

\* the entries of dir that listWordbooks keeps
Listed(dir) ==
    { e \in dir : ~e.isDir /\ HasTxtSuffix(e.name) /\ BaseName(e.name) # <<>> }

\* the byte order of the first characters of the tokens of the model
Rank(token) ==
    CASE token = " " -> 0
      [] token = "A" -> 1
      [] token = "a" -> 2
      [] token = "b" -> 3
      [] OTHER -> 4

\* x <= y in the order of sort.Strings
RECURSIVE StringLessEq(_, _)
StringLessEq(x, y) ==
    IF x = <<>> THEN TRUE
    ELSE IF y = <<>> THEN FALSE
    ELSE IF Head(x) = Head(y) THEN StringLessEq(Tail(x), Tail(y))
    ELSE Rank(Head(x)) < Rank(Head(y))

\* the names of the entries in es, sorted
RECURSIVE SortedNames(_)
SortedNames(es) ==
    IF es = {} THEN <<>>
    ELSE LET first == CHOOSE e \in es :
                          \A o \in es : StringLessEq(BaseName(e.name), BaseName(o.name))
         IN <<BaseName(first.name)>> \o SortedNames(es \ {first})

\* listWordbooks
listWordbooks(dir) == SortedNames(Listed(dir))

\* what the contents endpoint answers
WordsAnswer(status, name, words) == [status |-> status, name |-> name, words |-> words]

\* handleWordbookWords for the name in the request path
handleWordbookWords(dir, rawName) ==
    LET name == TrimSpace(rawName)
        path == name \o <<".txt">>
        found == { e \in dir : e.name = path }
    IN IF name = <<>> \/ \E i \in 1..Len(name) : name[i] \in {"/", "\\"}
       THEN WordsAnswer(400, name, <<>>)
       ELSE IF found = {} THEN WordsAnswer(404, name, <<>>)
       ELSE IF \E e \in found : e.isDir THEN WordsAnswer(500, name, <<>>)
       ELSE WordsAnswer(200, name, readWordbook((CHOOSE e \in found : TRUE).lines))

InitBooks ==
    /\ state = InitialState
    /\ panel = "setup"
    /\ fetches = 0
    /\ inflight = <<>>
    /\ session = 0
    /\ solveLog = <<>>
    /\ NoSession
    /\ config = emptyConfig
    /\ handlers = {}
    /\ lastSaved = <<>>
    /\ entries \in SUBSET DirEntries
    /\ event = [op |-> "init"]

\* GET wordbooks
ListBooks ==
    /\ event' = [op |-> "GET wordbooks", names |-> listWordbooks(entries)]
    /\ UNCHANGED gameVars
    /\ UNCHANGED serverVars

\* GET wordbook contents by a name the list endpoint returns, the one derived
\* from the file `from`
GetListedBook ==
    /\ \E e \in Listed(entries) :
         event' = [op |-> "GET listed wordbook", from |-> e,
                   answer |-> handleWordbookWords(entries, BaseName(e.name))]
    /\ UNCHANGED gameVars
    /\ UNCHANGED serverVars

\* GET wordbook contents by any other name
GetNamedBook ==
    /\ \E rawName \in RawNames :
         event' = [op |-> "GET wordbook", raw |-> rawName,
                   answer |-> handleWordbookWords(entries, rawName)]
    /\ UNCHANGED gameVars
    /\ UNCHANGED serverVars

NextBooks == ListBooks \/ GetListedBook \/ GetNamedBook

SpecBooks == InitBooks /\ [][NextBooks]_vars

\* C38: every name returned by the wordbook list endpoint can be fetched
\* through the contents endpoint: the request succeeds and returns the words
\* of the file the name was derived from, whatever the case of the file's
\* extension and the spaces around its base name
C38_ListedNamesFetch ==
    event.op = "GET listed wordbook" =>
        /\ event.answer.status = 200
        /\ event.answer.words = readWordbook(event.from.lines)

====
